---- MODULE Spec2Model ----
(***************************************************************************)
(* State-machine model of the data-access layer of the "rate your leader"  *)
(* application (src/src/data/leaders.ts, src/src/data/settings.ts and the  *)
(* polls, support-ticket and user modules).  The state is the content of   *)
(* the remote tables; every exported operation is one action, taken with   *)
(* its inputs and with the set of store calls that fail during the call.   *)
(***************************************************************************)
EXTENDS Integers, Sequences, FiniteSets, TLC

\* ------------------------------------------------------------------ bounds

\* The clock runs over 0..MaxClock milliseconds; generated ids are clock values.
MaxClock == 1

\* The support desk is observed for MaxTicketClock units of time.
MaxTicketClock == 2

\* ------------------------------------------------------- JavaScript values

\* null and undefined of string-typed fields.
NULL == "<null>"
UNDEF == "<undefined>"

\* Falsiness of a string-typed value, as the || operator sees it.
Falsy(v) == v \in {UNDEF, NULL, ""}

\* a || b on string-typed values.
Or(a, b) == IF Falsy(a) THEN b ELSE a

\* row.c of a fetched row: undefined when the row has no such column.
Col(row, c) == IF c \in DOMAIN row THEN row[c] ELSE UNDEF

\* Whether the numeric column c of a row is present and truthy (non-zero).
TruthyNum(row, c) == c \in DOMAIN row /\ row[c] # 0

\* A value as the store keeps it when sent in an insert: a property that is
\* undefined is dropped by the JSON body and the column takes its NULL default.
ToDb(v) == IF v = UNDEF THEN NULL ELSE v

\* JSON.stringify / JSON.parse of an array: the text is a value of its own type.
JSONstringify(v) == <<"json", v>>
JSONparse(s) == s[2]

\* comment.trim().length > 0 on the comment samples.
TrimLength(c) == IF c \in {"", "  "} THEN 0 ELSE 1

RECURSIVE SumRating(_)
\* allRatings.reduce((sum, r) => sum + r.rating, 0)
SumRating(rows) ==
    IF rows = {} THEN 0
    ELSE LET r == CHOOSE x \in rows : TRUE
         IN  r.rating + SumRating(rows \ {r})

\* parseFloat((total / n).toFixed(2)), in hundredths: toFixed(2) rounds the
\* quotient to the nearest hundredth (the larger one on a tie).
ToFixed2Floor(total, n) == (100 * total) \div n
ToFixed2(total, n) == (200 * total + n) \div (2 * n)

\* ------------------------------------------------------------------ inputs

\* Ids of registered users, as passed for userId.
Users == {"u1", "u2", "u3"}

\* Leader ids that calls are made with: every id the clock can generate.
LeaderIds == 0..MaxClock

\* leaderData samples: a full profile with one previous election, and a
\* minimal one whose optional fields are undefined.
LeaderDataFull ==
    [name |-> "Asha", partyName |-> "P1", gender |-> "female", age |-> 52,
     photoUrl |-> "a.png", constituency |-> "North", nativeAddress |-> "addr1",
     electionType |-> "state",
     location |-> [state |-> "KA", district |-> "D1"],
     previousElections |-> <<"2019:winner">>,
     manifestoUrl |-> "m.pdf", twitterUrl |-> "t.co/a"]
LeaderDataMin ==
    [name |-> "Bala", partyName |-> "P2", gender |-> "male", age |-> 40,
     photoUrl |-> "", constituency |-> "South", nativeAddress |-> "addr2",
     electionType |-> "national",
     location |-> [state |-> UNDEF, district |-> UNDEF],
     previousElections |-> <<>>,
     manifestoUrl |-> UNDEF, twitterUrl |-> UNDEF]
LeaderDataSamples == {LeaderDataFull, LeaderDataMin}

\* newRating samples (the parameter is an unvalidated number).
RatingSamples == {1, 2}

\* newRating samples below, at the ends of and above the range of scores.
ScoreSamples == {0, 1, 5, 6}

\* comment samples: none, blank, a text.
CommentSamples == {NULL, "  ", "good"}

\* adminComment samples of updateLeaderStatus.
AdminCommentSamples == {NULL, "Needs a photo"}

LeaderStatuses == {"pending", "approved", "rejected"}

\* ------------------------------------------------------------------- state

VARIABLES
    clock,             \* new Date().getTime()
    leaders,           \* table leaders: id -> row
    ratings,           \* table ratings: set of rows
    comments,          \* table comments: set of rows
    polls,             \* table polls: id -> row
    poll_questions,    \* table poll_questions: id -> row
    poll_options,      \* table poll_options: id -> row
    poll_responses,    \* table poll_responses: id -> row
    poll_answers,      \* table poll_answers: id -> row
    settings,          \* table settings: key -> value
    site_settings,     \* table site_settings: key -> value
    support_tickets,   \* table support_tickets: id -> row
    users,             \* table users: id -> row
    last,              \* the last call: operation, inputs, failed store calls, outcome
    focus,             \* the data-access module the behaviour exercises
    inflight           \* calls between two of their store steps: slot -> locals

leaderTables == <<leaders, ratings, comments>>
pollTables == <<polls, poll_questions, poll_options, poll_responses, poll_answers>>
settingsTables == <<settings, site_settings>>
ticketTables == <<support_tickets>>
userTables == <<users>>
\* The calls that can be in progress at once, and a slot without a call.
Calls == {"a", "b"}
Idle == [op |-> "idle", pc |-> "idle"]

tables == <<leaderTables, pollTables, settingsTables, ticketTables, userTables>>
vars == <<clock, tables, last, focus, inflight>>

\* The empty table keyed by id.
EmptyTable == [k \in {} |-> NULL]

\* What a call that returns nothing returns.
Void == [isVoid |-> TRUE]

\* The null / undefined object result.
Null == [isNull |-> TRUE]

Returned(op, args, failed, ret) ==
    [op |-> op, args |-> args, failed |-> failed, outcome |-> "returned", ret |-> ret]
Threw(op, args, failed, msg) ==
    [op |-> op, args |-> args, failed |-> failed, outcome |-> "threw", msg |-> msg]

\* ----------------------------------------------------------- store (leaders)

\* insert into a table with primary key id: a duplicate key is an error.
InsertFails(tbl, id, failed) == failed \/ id \in DOMAIN tbl

\* ratings of one leader: .from('ratings').select('rating').eq('leaderId', l)
RatingsOf(tbl, leaderId) == {r \in tbl : r.leaderId = leaderId}

\* upsert on the (userId, leaderId) key of ratings and comments.
UpsertInsertOnly(tbl, row) == tbl \cup {row}
Upsert(tbl, row) ==
    {r \in tbl : ~(r.userId = row.userId /\ r.leaderId = row.leaderId)} \cup {row}

\* ------------------------------------------------------------- leaders.ts

dbToLeader(dbLeader) ==
    [id |-> dbLeader.id,
     name |-> Col(dbLeader, "name"),
     partyName |-> Or(Col(dbLeader, "partyName"), Col(dbLeader, "party_name")),
     gender |-> Col(dbLeader, "gender"),
     age |-> dbLeader.age,
     photoUrl |-> Or(Col(dbLeader, "photoUrl"), Col(dbLeader, "photo_url")),
     constituency |-> Col(dbLeader, "constituency"),
     nativeAddress |-> Or(Col(dbLeader, "nativeAddress"), Col(dbLeader, "native_address")),
     electionType |-> Or(Col(dbLeader, "electionType"), Col(dbLeader, "election_type")),
     location |-> [state |-> Col(dbLeader, "location_state"),
                   district |-> Col(dbLeader, "location_district")],
     rating |-> IF TruthyNum(dbLeader, "rating") THEN dbLeader.rating ELSE 0,
     reviewCount |-> IF TruthyNum(dbLeader, "reviewCount") THEN dbLeader.reviewCount
                     ELSE IF TruthyNum(dbLeader, "review_count") THEN dbLeader.review_count
                     ELSE 0,
     previousElections |-> IF "previousElections" \in DOMAIN dbLeader
                           THEN JSONparse(dbLeader.previousElections)
                           ELSE <<>>,
     manifestoUrl |-> Or(Col(dbLeader, "manifestoUrl"), Col(dbLeader, "manifesto_url")),
     twitterUrl |-> Or(Col(dbLeader, "twitterUrl"), Col(dbLeader, "twitter_url")),
     addedByUserId |-> Or(Col(dbLeader, "addedByUserId"), Col(dbLeader, "added_by_user_id")),
     createdAt |-> dbLeader.created_at,
     status |-> Or(Col(dbLeader, "status"), "pending"),
     adminComment |-> Or(Col(dbLeader, "adminComment"), Col(dbLeader, "admin_comment")),
     userName |-> Or(Col(dbLeader, "userName"), Col(dbLeader, "user_name"))]

\* The row addLeader builds.
newLeader(leaderData, userId, now) ==
    [id |-> now,
     name |-> leaderData.name,
     party_name |-> leaderData.partyName,
     gender |-> leaderData.gender,
     age |-> leaderData.age,
     photo_url |-> leaderData.photoUrl,
     constituency |-> leaderData.constituency,
     native_address |-> leaderData.nativeAddress,
     election_type |-> leaderData.electionType,
     location_state |-> ToDb(leaderData.location.state),
     location_district |-> ToDb(leaderData.location.district),
     rating |-> 0,
     review_count |-> 0,
     previous_elections |-> JSONstringify(leaderData.previousElections),
     manifesto_url |-> ToDb(leaderData.manifestoUrl),
     twitter_url |-> ToDb(leaderData.twitterUrl),
     added_by_user_id |-> userId,
     created_at |-> now,
     status |-> "pending",
     admin_comment |-> NULL]

\* The result of getLeaderById on a table: .single() errors on no row.
getLeaderById(tbl, id, failed) ==
    IF failed \/ id \notin DOMAIN tbl THEN Null ELSE dbToLeader(tbl[id])

\* getLeaders: the approved leaders, or [] on error.
getLeadersIgnoringError(tbl, failed) ==
    {dbToLeader(tbl[id]) : id \in {i \in DOMAIN tbl : tbl[i].status = "approved"}}
getLeadersAnyStatus(tbl, failed) ==
    IF failed THEN {} ELSE {dbToLeader(tbl[id]) : id \in DOMAIN tbl}
getLeaders(tbl, failed) ==
    IF failed THEN {}
    ELSE {dbToLeader(tbl[id]) : id \in {i \in DOMAIN tbl : tbl[i].status = "approved"}}

\* getLeadersAddedByUser: the leaders with added_by_user_id = userId, or [] on error.
getLeadersAddedByUser(tbl, userId, failed) ==
    IF failed THEN {}
    ELSE {dbToLeader(tbl[id]) : id \in {i \in DOMAIN tbl : tbl[i].added_by_user_id = userId}}

OutsideLeaders == <<clock, focus, inflight, pollTables, settingsTables, ticketTables, userTables>>

GetLeaders(failed) ==
    /\ last' = Returned("getLeaders", <<>>, failed, getLeaders(leaders, "read" \in failed))
    /\ UNCHANGED <<leaderTables, OutsideLeaders>>

GetLeaderById(id, failed) ==
    /\ last' = Returned("getLeaderById", <<id>>, failed,
                        getLeaderById(leaders, id, "read" \in failed))
    /\ UNCHANGED <<leaderTables, OutsideLeaders>>

GetLeadersAddedByUser(userId, failed) ==
    /\ last' = Returned("getLeadersAddedByUser", <<userId>>, failed,
                        getLeadersAddedByUser(leaders, userId, "read" \in failed))
    /\ UNCHANGED <<leaderTables, OutsideLeaders>>

AddLeader(leaderData, userId, failed) ==
    /\ IF InsertFails(leaders, clock, "insert" \in failed)
       THEN /\ last' = Threw("addLeader", <<leaderData, userId>>, failed, "Failed to add leader")
            /\ UNCHANGED leaders
       ELSE /\ leaders' = (clock :> newLeader(leaderData, userId, clock)) @@ leaders
            /\ last' = Returned("addLeader", <<leaderData, userId>>, failed, Void)
    /\ UNCHANGED <<ratings, comments, OutsideLeaders>>

\* The authorization test of updateLeader.
NotAuthorizedInverted(isAdmin, leaderToUpdate, userId) ==
    ~isAdmin /\ leaderToUpdate.addedByUserId = userId
NotAuthorized(isAdmin, leaderToUpdate, userId) ==
    ~isAdmin /\ leaderToUpdate.addedByUserId # userId

\* The columns updateLeader writes; an undefined value leaves its column alone.
updateData(row, leaderData, newStatus, newAdminComment) ==
    [row EXCEPT
        !.name = leaderData.name,
        !.party_name = leaderData.partyName,
        !.gender = leaderData.gender,
        !.age = leaderData.age,
        !.photo_url = leaderData.photoUrl,
        !.constituency = leaderData.constituency,
        !.native_address = leaderData.nativeAddress,
        !.election_type = leaderData.electionType,
        !.location_state = IF leaderData.location.state = UNDEF THEN @
                           ELSE leaderData.location.state,
        !.location_district = IF leaderData.location.district = UNDEF THEN @
                              ELSE leaderData.location.district,
        !.previous_elections = JSONstringify(leaderData.previousElections),
        !.manifesto_url = IF leaderData.manifestoUrl = UNDEF THEN @ ELSE leaderData.manifestoUrl,
        !.twitter_url = IF leaderData.twitterUrl = UNDEF THEN @ ELSE leaderData.twitterUrl,
        !.status = newStatus,
        !.admin_comment = IF newAdminComment = UNDEF THEN @ ELSE newAdminComment]

\* The status updateLeader writes: an admin's edit keeps it, a submitter's
\* edit sends the leader back to moderation.
NewStatusKept(isAdmin, leaderToUpdate) == leaderToUpdate.status
NewStatusResubmitted(isAdmin, leaderToUpdate) ==
    IF isAdmin THEN leaderToUpdate.status ELSE "resubmitted"
NewStatus(isAdmin, leaderToUpdate) ==
    IF isAdmin THEN leaderToUpdate.status ELSE "pending"

UpdateLeader(leaderId, leaderData, userId, isAdmin, failed) ==
    LET args == <<leaderId, leaderData, userId, isAdmin>>
        leaderToUpdate == getLeaderById(leaders, leaderId, "read" \in failed)
    IN
    /\ IF leaderToUpdate = Null
       THEN /\ last' = Threw("updateLeader", args, failed, "Leader not found.")
            /\ UNCHANGED leaders
       ELSE IF NotAuthorized(isAdmin, leaderToUpdate, userId)
       THEN /\ last' = Threw("updateLeader", args, failed,
                             "You are not authorized to edit this leader.")
            /\ UNCHANGED leaders
       ELSE IF "update" \in failed
       THEN /\ last' = Threw("updateLeader", args, failed, "Failed to update leader")
            /\ UNCHANGED leaders
       ELSE LET newStatus == NewStatus(isAdmin, leaderToUpdate)
                newAdminComment ==
                    IF isAdmin THEN leaderToUpdate.adminComment
                    ELSE "User updated details. Pending re-approval."
            IN  /\ leaders' = [leaders EXCEPT ![leaderId] =
                                  updateData(@, leaderData, newStatus, newAdminComment)]
                /\ last' = [was |-> leaderToUpdate.status] @@
                            Returned("updateLeader", args, failed,
                                     getLeaderById(leaders', leaderId, "readBack" \in failed))
    /\ UNCHANGED <<ratings, comments, OutsideLeaders>>

\* The aggregate submitRatingAndComment and deleteRating write to the leader row.
AggregateCountOnly(allRatings) ==
    [rating |-> 0, review_count |-> Cardinality(allRatings)]
Aggregate(allRatings) ==
    [rating |-> ToFixed2(SumRating(allRatings), Cardinality(allRatings)),
     review_count |-> Cardinality(allRatings)]

\* .from('leaders').update(cols).eq('id', leaderId): no row matched is no error.
UpdateAggregate(tbl, leaderId, agg) ==
    IF leaderId \in DOMAIN tbl
    THEN [tbl EXCEPT ![leaderId].rating = agg.rating,
                     ![leaderId].review_count = agg.review_count]
    ELSE tbl

\* The ratings upsert of submitRatingAndComment.
UpsertRatingAsInsert(tbl, row) == UpsertInsertOnly(tbl, row)
UpsertRating(tbl, row) == Upsert(tbl, row)

SubmitRatingAndComment(leaderId, userId, newRating, comment, failed) ==
    LET args == <<leaderId, userId, newRating, comment>>
        \* existingRating: only decides whether createdAt is sent (timestamps of
        \* ratings and comments rows are not part of the model)
        existingRating == /\ "readExisting" \notin failed
                          /\ \E r \in ratings : r.userId = userId /\ r.leaderId = leaderId
        \* the ratings row references the leader: the upsert fails without it
        ratingError == "upsertRating" \in failed \/ leaderId \notin DOMAIN leaders
        ratings1 == UpsertRating(ratings, [userId |-> userId, leaderId |-> leaderId,
                                           rating |-> newRating])
        hasComment == ~Falsy(comment) /\ TrimLength(comment) > 0
        comments1 == IF hasComment /\ "upsertComment" \notin failed
                     THEN Upsert(comments, [userId |-> userId, leaderId |-> leaderId,
                                            comment |-> comment])
                     ELSE comments
        allRatings == RatingsOf(ratings1, leaderId)
        doUpdate == /\ "readAll" \notin failed
                    /\ allRatings # {}
                    /\ "updateLeader" \notin failed
    IN
    /\ IF ratingError
       THEN /\ last' = Threw("submitRatingAndComment", args, failed, "Failed to submit rating")
            /\ UNCHANGED leaderTables
       ELSE /\ ratings' = ratings1
            /\ comments' = comments1
            /\ leaders' = IF doUpdate
                          THEN UpdateAggregate(leaders, leaderId, Aggregate(allRatings))
                          ELSE leaders
            /\ last' = [existing |-> existingRating] @@
                        Returned("submitRatingAndComment", args, failed,
                                 getLeaderById(leaders', leaderId, "readBack" \in failed))
    /\ UNCHANGED OutsideLeaders

ApproveLeader(leaderId, failed) ==
    /\ IF "update" \in failed
       THEN /\ last' = Threw("approveLeader", <<leaderId>>, failed, "Failed to approve leader")
            /\ UNCHANGED leaders
       ELSE /\ leaders' = IF leaderId \in DOMAIN leaders
                          THEN [leaders EXCEPT ![leaderId].status = "approved",
                                               ![leaderId].admin_comment = "Approved by admin."]
                          ELSE leaders
            /\ last' = Returned("approveLeader", <<leaderId>>, failed, Void)
    /\ UNCHANGED <<ratings, comments, OutsideLeaders>>

UpdateLeaderStatus(leaderId, status, adminComment, failed) ==
    LET args == <<leaderId, status, adminComment>> IN
    /\ IF "update" \in failed
       THEN /\ last' = Threw("updateLeaderStatus", args, failed,
                             "Failed to update leader status")
            /\ UNCHANGED leaders
       ELSE /\ leaders' = IF leaderId \in DOMAIN leaders
                          THEN [leaders EXCEPT ![leaderId].status = status,
                                               ![leaderId].admin_comment = adminComment]
                          ELSE leaders
            /\ last' = Returned("updateLeaderStatus", args, failed, Void)
    /\ UNCHANGED <<ratings, comments, OutsideLeaders>>

\* The foreign keys of ratings and comments to leaders: a leader that rows
\* still reference cannot be deleted.
StillReferencedNever(ratingRows, commentRows, leaderId) == FALSE
StillReferenced(ratingRows, commentRows, leaderId) ==
    \/ RatingsOf(ratingRows, leaderId) # {}
    \/ {c \in commentRows : c.leaderId = leaderId} # {}

\* The rows of ratings and comments that reference a leader.
Dependents(leaderId) ==
    Cardinality(RatingsOf(ratings, leaderId))
    + Cardinality({c \in comments : c.leaderId = leaderId})

DeleteLeader(leaderId, failed) ==
    LET ratings1 == IF "deleteRatings" \in failed THEN ratings
                    ELSE {r \in ratings : r.leaderId # leaderId}
        comments1 == IF "deleteComments" \in failed THEN comments
                     ELSE {c \in comments : c.leaderId # leaderId}
        error == \/ "deleteLeader" \in failed
                 \/ StillReferenced(ratings1, comments1, leaderId)
    IN
    /\ ratings' = ratings1
    /\ comments' = comments1
    /\ IF error
       THEN /\ last' = Threw("deleteLeader", <<leaderId>>, failed, "Failed to delete leader")
            /\ UNCHANGED leaders
       ELSE /\ leaders' = [i \in DOMAIN leaders \ {leaderId} |-> leaders[i]]
            /\ last' = [dependents |-> Dependents(leaderId)] @@
                        Returned("deleteLeader", <<leaderId>>, failed, Void)
    /\ UNCHANGED OutsideLeaders

DeleteRating(userId, leaderId, failed) ==
    LET ratings1 == IF "deleteRating" \in failed THEN ratings
                    ELSE {r \in ratings : ~(r.userId = userId /\ r.leaderId = leaderId)}
        comments1 == IF "deleteComment" \in failed THEN comments
                     ELSE {c \in comments : ~(c.userId = userId /\ c.leaderId = leaderId)}
        \* allRatings?.length || 0: a failed read counts as no rating
        allRatings == IF "readAll" \in failed THEN {} ELSE RatingsOf(ratings1, leaderId)
        agg == IF allRatings = {} THEN [rating |-> 0, review_count |-> 0]
               ELSE Aggregate(allRatings)
    IN
    /\ ratings' = ratings1
    /\ comments' = comments1
    /\ leaders' = IF "updateLeader" \in failed THEN leaders
                  ELSE UpdateAggregate(leaders, leaderId, agg)
    /\ last' = [removed |-> Cardinality(ratings \ ratings1) + Cardinality(comments \ comments1)]
                @@ Returned("deleteRating", <<userId, leaderId>>, failed, Void)
    /\ UNCHANGED OutsideLeaders

\* ------------------------------------------------------- polls (part_000)

\* `${pollId}_q_${question.questionOrder}`
QuestionId(pollId, questionOrder) == [poll |-> pollId, q |-> questionOrder]
\* `${questionId}_o_${option.optionOrder}`
OptionId(questionId, optionOrder) == [question |-> questionId, o |-> optionOrder]
\* `${responseId}_a_${index}`
AnswerId(responseId, index) == [response |-> responseId, a |-> index]

\* pollData sample: a multiple-choice question with three options and a
\* single-choice question with one.
PollSample ==
    [title |-> "Roads", description |-> NULL, isActive |-> TRUE, activeUntil |-> NULL,
     questions |->
        << [questionText |-> "Which?", questionType |-> "multiple-choice", questionOrder |-> 1,
            options |-> << [optionText |-> "A", optionOrder |-> 1],
                           [optionText |-> "B", optionOrder |-> 2],
                           [optionText |-> "C", optionOrder |-> 3] >>],
           [questionText |-> "Again?", questionType |-> "single-choice", questionOrder |-> 2,
            options |-> << [optionText |-> "Yes", optionOrder |-> 1] >>] >>]
PollSamples == {PollSample}

\* A poll whose questions and options are not given in ascending order, one
\* of them a text question without options.
PollShuffled ==
    [title |-> "Water", description |-> "Supply", isActive |-> FALSE, activeUntil |-> "t3",
     questions |->
        << [questionText |-> "Why?", questionType |-> "text", questionOrder |-> 5,
            options |-> << >>],
           [questionText |-> "When?", questionType |-> "single-choice", questionOrder |-> 2,
            options |-> << [optionText |-> "Later", optionOrder |-> 3],
                           [optionText |-> "Now", optionOrder |-> 1] >>] >>]

\* Poll ids that calls are made with: every id the clock can generate.
PollIds == 0..MaxClock

\* Users that answer polls.
PollUsers == {"u1", "u2"}

\* answers samples for a poll p created from PollSample: one, two or all three
\* options of question 1, and an answer to question 1 that selects the option
\* of question 2.
Answer(p, q, qo, o) ==
    [questionId |-> QuestionId(p, q), selectedOptionId |-> OptionId(QuestionId(p, qo), o)]
AnswerSamples(p) ==
    { << Answer(p, 1, 1, 1) >>,
      << Answer(p, 1, 1, 1), Answer(p, 1, 1, 2) >>,
      << Answer(p, 1, 1, 1), Answer(p, 1, 1, 2), Answer(p, 1, 1, 3) >>,
      << Answer(p, 1, 2, 1) >> }

\* Insert of several rows keyed by id in one statement: all or none.
InsertAll(tbl, rows) == [i \in DOMAIN tbl \cup DOMAIN rows |->
                            IF i \in DOMAIN rows THEN rows[i] ELSE tbl[i]]

\* The poll_options rows createPoll builds for one question.
optionsToInsert(questionId, options) ==
    [i \in {OptionId(questionId, options[k].optionOrder) : k \in DOMAIN options} |->
        LET k == CHOOSE k \in DOMAIN options : OptionId(questionId, options[k].optionOrder) = i
        IN  [id |-> i, question_id |-> questionId,
             option_text |-> options[k].optionText, option_order |-> options[k].optionOrder]]

\* Two rows of one insert, or a row and a stored row, with the same primary key.
OptionKeyClash(tbl, questionId, options) ==
    \/ \E k \in DOMAIN options : OptionId(questionId, options[k].optionOrder) \in DOMAIN tbl
    \/ \E j, k \in DOMAIN options :
          j # k /\ options[j].optionOrder = options[k].optionOrder

\* The name of the store call that inserts question k, and of the one that
\* inserts its options.
QuestionStep(k) == <<"question1", "question2">>[k]
OptionsStep(k) == <<"options1", "options2">>[k]
PollSteps == {"poll", "question1", "options1", "question2", "options2"}

RECURSIVE InsertQuestions(_, _, _, _, _, _)
\* The loop of createPoll over pollData.questions from question k on: the two
\* tables it leaves and the message it throws, or "" when it completes.
InsertQuestions(pollId, questions, k, pq, po, failed) ==
    IF k > Len(questions) THEN [pq |-> pq, po |-> po, msg |-> ""]
    ELSE
    LET question == questions[k]
        questionId == QuestionId(pollId, question.questionOrder)
        questionRow == [id |-> questionId, poll_id |-> pollId,
                        question_text |-> question.questionText,
                        question_type |-> question.questionType,
                        question_order |-> question.questionOrder]
        pq1 == (questionId :> questionRow) @@ pq
    IN  IF InsertFails(pq, questionId, QuestionStep(k) \in failed)
        THEN [pq |-> pq, po |-> po, msg |-> "Failed to create poll question"]
        ELSE IF Len(question.options) = 0
        THEN InsertQuestions(pollId, questions, k + 1, pq1, po, failed)
        ELSE IF \/ OptionsStep(k) \in failed
                \/ OptionKeyClash(po, questionId, question.options)
        THEN [pq |-> pq1, po |-> po, msg |-> "Failed to create poll options"]
        ELSE InsertQuestions(pollId, questions, k + 1, pq1,
                             InsertAll(po, optionsToInsert(questionId, question.options)),
                             failed)

OutsidePolls == <<clock, focus, inflight, leaderTables, settingsTables, ticketTables, userTables>>

\* createPoll undoing its inserts when a later one fails.
CreatePollRollingBack(pollData, failed) ==
    LET pollId == clock
        pollRow == [id |-> pollId, title |-> pollData.title,
                    description |-> pollData.description,
                    is_active |-> pollData.isActive,
                    active_until |-> pollData.activeUntil,
                    created_at |-> clock]
        done == InsertQuestions(pollId, pollData.questions, 1, poll_questions, poll_options,
                                failed)
    IN
    /\ IF InsertFails(polls, pollId, "poll" \in failed)
       THEN /\ last' = Threw("createPoll", <<pollData>>, failed, "Failed to create poll")
            /\ UNCHANGED <<polls, poll_questions, poll_options>>
       ELSE IF done.msg # ""
       THEN /\ last' = Threw("createPoll", <<pollData>>, failed, done.msg)
            /\ UNCHANGED <<polls, poll_questions, poll_options>>
       ELSE /\ polls' = (pollId :> pollRow) @@ polls
            /\ poll_questions' = done.pq
            /\ poll_options' = done.po
            /\ last' = Returned("createPoll", <<pollData>>, failed, pollId)
    /\ UNCHANGED <<poll_responses, poll_answers, OutsidePolls>>

CreatePoll(pollData, failed) ==
    LET pollId == clock
        pollRow == [id |-> pollId, title |-> pollData.title,
                    description |-> pollData.description,
                    is_active |-> pollData.isActive,
                    active_until |-> pollData.activeUntil,
                    created_at |-> clock]
        done == InsertQuestions(pollId, pollData.questions, 1, poll_questions, poll_options,
                                failed)
    IN
    /\ IF InsertFails(polls, pollId, "poll" \in failed)
       THEN /\ last' = Threw("createPoll", <<pollData>>, failed, "Failed to create poll")
            /\ UNCHANGED <<polls, poll_questions, poll_options>>
       ELSE /\ polls' = (pollId :> pollRow) @@ polls
            /\ poll_questions' = done.pq
            /\ poll_options' = done.po
            /\ last' = IF done.msg = ""
                       THEN Returned("createPoll", <<pollData>>, failed, pollId)
                       ELSE Threw("createPoll", <<pollData>>, failed, done.msg)
    /\ UNCHANGED <<poll_responses, poll_answers, OutsidePolls>>

RECURSIVE SortByOrderDescending(_, _, _)
SortByOrderDescending(tbl, ids, key) ==
    IF ids = {} THEN <<>>
    ELSE LET first == CHOOSE i \in ids : \A j \in ids : tbl[i][key] >= tbl[j][key]
         IN  <<first>> \o SortByOrderDescending(tbl, ids \ {first}, key)

RECURSIVE SortByOrder(_, _, _)
\* .sort((a, b) => a[key] - b[key]) of the rows tbl holds under the given ids.
SortByOrder(tbl, ids, key) ==
    IF ids = {} THEN <<>>
    ELSE LET first == CHOOSE i \in ids : \A j \in ids : tbl[i][key] <= tbl[j][key]
         IN  <<first>> \o SortByOrder(tbl, ids \ {first}, key)

\* dbToPoll of the polls row with its embedded questions and their options.
dbToPoll(pq, po, dbPoll) ==
    LET optionsOf(q) ==
            LET ids == SortByOrder(po, {i \in DOMAIN po : po[i].question_id = q},
                                   "option_order")
            IN  [k \in DOMAIN ids |->
                    [id |-> po[ids[k]].id, questionId |-> po[ids[k]].question_id,
                     optionText |-> po[ids[k]].option_text,
                     optionOrder |-> po[ids[k]].option_order]]
        qids == SortByOrder(pq, {i \in DOMAIN pq : pq[i].poll_id = dbPoll.id}, "question_order")
    IN  [id |-> dbPoll.id, title |-> dbPoll.title, description |-> dbPoll.description,
         isActive |-> dbPoll.is_active, activeUntil |-> dbPoll.active_until,
         createdAt |-> dbPoll.created_at,
         questions |-> [k \in DOMAIN qids |->
                          [id |-> pq[qids[k]].id, pollId |-> pq[qids[k]].poll_id,
                           questionText |-> pq[qids[k]].question_text,
                           questionType |-> pq[qids[k]].question_type,
                           questionOrder |-> pq[qids[k]].question_order,
                           options |-> optionsOf(qids[k])]]]

\* getPollById: the poll with its questions and options, or null when the
\* read fails or there is no such poll.
getPollById(pollId, failed) ==
    IF failed \/ pollId \notin DOMAIN polls THEN Null
    ELSE dbToPoll(poll_questions, poll_options, polls[pollId])

GetPollById(pollId, failed) ==
    /\ last' = Returned("getPollById", <<pollId>>, failed, getPollById(pollId, "read" \in failed))
    /\ UNCHANGED <<pollTables, OutsidePolls>>

\* .eq('poll_id', pollId).eq('user_id', userId).single(): the one matching row,
\* or null when the read fails or does not match exactly one row.
ResponsesOf(tbl, pollId, userId) ==
    {i \in DOMAIN tbl : tbl[i].poll_id = pollId /\ tbl[i].user_id = userId}
SingleResponse(tbl, pollId, userId, failed) ==
    IF failed \/ Cardinality(ResponsesOf(tbl, pollId, userId)) # 1 THEN Null
    ELSE [id |-> CHOOSE i \in ResponsesOf(tbl, pollId, userId) : TRUE]

\* The poll_answers rows submitPollResponse builds.
answersToInsert(responseId, answers) ==
    [i \in {AnswerId(responseId, index - 1) : index \in DOMAIN answers} |->
        [id |-> i, response_id |-> responseId,
         question_id |-> answers[i.a + 1].questionId,
         selected_option_id |-> answers[i.a + 1].selectedOptionId]]

\* The check of submitPollResponse that the user has already responded.
AlreadyRespondedNever(existing) == FALSE
AlreadyResponded(existing) == existing # Null

\* submitPollResponse undoing the insert of the response when the insert of
\* its answers fails.
SubmitPollResponseRollingBack(pollId, userId, answers, failed) ==
    LET args == <<pollId, userId>>
        responseId == clock
        existing == SingleResponse(poll_responses, pollId, userId, "readExisting" \in failed)
        responseError == \/ InsertFails(poll_responses, responseId, "insertResponse" \in failed)
                         \/ pollId \notin DOMAIN polls
        responseRow == [id |-> responseId, poll_id |-> pollId, user_id |-> userId,
                        created_at |-> clock]
        answerError == \/ "insertAnswers" \in failed
                       \/ \E k \in DOMAIN answers :
                             \/ answers[k].questionId \notin DOMAIN poll_questions
                             \/ answers[k].selectedOptionId \notin DOMAIN poll_options
    IN
    /\ IF AlreadyResponded(existing)
       THEN /\ last' = Threw("submitPollResponse", args, failed,
                             "User has already responded to this poll")
            /\ UNCHANGED <<poll_responses, poll_answers>>
       ELSE IF responseError
       THEN /\ last' = Threw("submitPollResponse", args, failed,
                             "Failed to submit poll response")
            /\ UNCHANGED <<poll_responses, poll_answers>>
       ELSE IF answerError
       THEN /\ last' = Threw("submitPollResponse", args, failed,
                             "Failed to submit poll answers")
            /\ UNCHANGED <<poll_responses, poll_answers>>
       ELSE /\ poll_responses' = (responseId :> responseRow) @@ poll_responses
            /\ poll_answers' = InsertAll(poll_answers, answersToInsert(responseId, answers))
            /\ last' = Returned("submitPollResponse", args, failed, Void)
    /\ UNCHANGED <<polls, poll_questions, poll_options, OutsidePolls>>

SubmitPollResponse(pollId, userId, answers, failed) ==
    LET args == <<pollId, userId>>
        responseId == clock
        existing == SingleResponse(poll_responses, pollId, userId, "readExisting" \in failed)
        \* the response references its poll
        responseError == \/ InsertFails(poll_responses, responseId, "insertResponse" \in failed)
                         \/ pollId \notin DOMAIN polls
        responseRow == [id |-> responseId, poll_id |-> pollId, user_id |-> userId,
                        created_at |-> clock]
        \* an answer references its question and its option
        answerError == \/ "insertAnswers" \in failed
                       \/ \E k \in DOMAIN answers :
                             \/ answers[k].questionId \notin DOMAIN poll_questions
                             \/ answers[k].selectedOptionId \notin DOMAIN poll_options
    IN
    /\ IF AlreadyResponded(existing)
       THEN /\ last' = Threw("submitPollResponse", args, failed,
                             "User has already responded to this poll")
            /\ UNCHANGED <<poll_responses, poll_answers>>
       ELSE IF responseError
       THEN /\ last' = Threw("submitPollResponse", args, failed,
                             "Failed to submit poll response")
            /\ UNCHANGED <<poll_responses, poll_answers>>
       ELSE /\ poll_responses' = (responseId :> responseRow) @@ poll_responses
            /\ IF answerError
               THEN /\ last' = Threw("submitPollResponse", args, failed,
                                     "Failed to submit poll answers")
                    /\ UNCHANGED poll_answers
               ELSE /\ poll_answers' = InsertAll(poll_answers,
                                                 answersToInsert(responseId, answers))
                    /\ last' = Returned("submitPollResponse", args, failed, Void)
    /\ UNCHANGED <<polls, poll_questions, poll_options, OutsidePolls>>

\* Math.round((count / totalResponses) * 100)
PercentageFloor(count, totalResponses) == (100 * count) \div totalResponses
PercentageCeil(count, totalResponses) ==
    (100 * count + totalResponses - 1) \div totalResponses
Percentage(count, totalResponses) == (200 * count + totalResponses) \div (2 * totalResponses)

\* The nested rows of a question: poll_answers(*) and poll_options(*).
AnswersOfQuestion(questionId) ==
    {i \in DOMAIN poll_answers : poll_answers[i].question_id = questionId}
OptionsOfQuestion(questionId) ==
    {i \in DOMAIN poll_options : poll_options[i].question_id = questionId}
QuestionsOfPoll(pollId) ==
    {i \in DOMAIN poll_questions : poll_questions[i].poll_id = pollId}

\* The result getPollResults builds for one question.
questionResult(pollId, questionId) ==
    LET totalResponses == Cardinality(AnswersOfQuestion(questionId))
        \* optionCounts[optionId] || 0
        optionCount(optionId) ==
            Cardinality({i \in AnswersOfQuestion(questionId) :
                            poll_answers[i].selected_option_id = optionId})
    IN  [pollId |-> pollId,
         questionId |-> questionId,
         questionText |-> poll_questions[questionId].question_text,
         questionType |-> poll_questions[questionId].question_type,
         options |-> {[optionId |-> o,
                       optionText |-> poll_options[o].option_text,
                       count |-> optionCount(o),
                       percentage |-> IF totalResponses > 0
                                      THEN Percentage(optionCount(o), totalResponses)
                                      ELSE 0] : o \in OptionsOfQuestion(questionId)},
         totalResponses |-> totalResponses]

\* getPollResults: one result per question of the poll, or [] without the poll.
getPollResults(pollId, failed) ==
    IF failed \/ pollId \notin DOMAIN polls THEN {}
    ELSE {questionResult(pollId, q) : q \in QuestionsOfPoll(pollId)}

GetPollResults(pollId, failed) ==
    /\ last' = Returned("getPollResults", <<pollId>>, failed,
                        getPollResults(pollId, "read" \in failed))
    /\ UNCHANGED <<pollTables, OutsidePolls>>

\* hasUserRespondedToPoll: !!data of the same .single() read.
HasUserRespondedToPoll(pollId, userId, failed) ==
    /\ last' = Returned("hasUserRespondedToPoll", <<pollId, userId>>, failed,
                        SingleResponse(poll_responses, pollId, userId, "read" \in failed) # Null)
    /\ UNCHANGED <<pollTables, OutsidePolls>>

\* ------------------------------------------------------------ settings.ts

\* new Date(ms).toISOString(): the text of the instant ms; ISOBefore holds
\* the texts of the instants -1, -2 before the epoch.
ISO == <<"t0", "t1", "t2", "t3", "t4", "t5">>
ISOBefore == <<"s1", "s2">>
Instants == (0 - Len(ISOBefore))..(Len(ISO) - 1)
toISOString(ms) == IF ms < 0 THEN ISOBefore[0 - ms] ELSE ISO[ms + 1]

\* new Date(text): the instant of a date text; any other text is an Invalid
\* Date, which compares false with every instant.
IsValidDate(text) == \E ms \in Instants : toISOString(ms) = text
getTime(text) == CHOOSE ms \in Instants : toISOString(ms) = text

\* now < startTime and now > endTime of isMaintenanceActive.
NowBefore(now, startTime) == IsValidDate(startTime) /\ now < getTime(startTime)
NowAfterOrAt(now, endTime) == IsValidDate(endTime) /\ now >= getTime(endTime)
NowAfter(now, endTime) == IsValidDate(endTime) /\ now > getTime(endTime)

SettingKeys ==
    {"maintenance_active", "maintenance_start", "maintenance_end", "maintenance_message",
     "contact_email", "contact_phone", "contact_twitter", "contact_linkedin",
     "contact_youtube", "contact_facebook"}

\* The object getSettings returns when the read fails.
getSettingsOnError ==
    [k \in SettingKeys |-> IF k = "maintenance_active" THEN "false" ELSE NULL]

\* getSettings: the rows of table settings as one object.
getSettings(failed) ==
    IF failed THEN getSettingsOnError
    ELSE [k \in SettingKeys |->
            IF k = "maintenance_active" THEN Or(Col(settings, k), "false")
            ELSE Col(settings, k)]

\* isMaintenanceActive at the instant now.
isMaintenanceActive(now, failed) ==
    LET s == getSettings(failed)
        hasStart == ~Falsy(s["maintenance_start"])
        hasEnd == ~Falsy(s["maintenance_end"])
    IN  IF s["maintenance_active"] # "true" THEN FALSE
        ELSE IF hasStart /\ NowBefore(now, s["maintenance_start"]) THEN FALSE
        ELSE IF hasEnd /\ NowAfter(now, s["maintenance_end"]) THEN FALSE
        ELSE TRUE

OutsideSettings == <<clock, focus, inflight, leaderTables, pollTables, ticketTables, userTables>>

GetSettings(failed) ==
    /\ last' = Returned("getSettings", <<>>, failed, getSettings("read" \in failed))
    /\ UNCHANGED <<settingsTables, OutsideSettings>>

IsMaintenanceActive(failed) ==
    /\ last' = [now |-> clock] @@
                Returned("isMaintenanceActive", <<>>, failed,
                         isMaintenanceActive(clock, "read" \in failed))
    /\ UNCHANGED <<settingsTables, OutsideSettings>>

\* value?.toString() || null
ToStringOrNull(value) == IF Falsy(value) THEN NULL ELSE value

RECURSIVE UpsertEach(_, _, _, _)
\* The loop of updateSettings over the entries from entry k on: the table it
\* leaves and the key whose upsert failed, or "" when it completes.
UpsertEach(tbl, updates, k, failed) ==
    IF k > Len(updates) THEN [tbl |-> tbl, key |-> ""]
    ELSE IF updates[k][1] \in failed THEN [tbl |-> tbl, key |-> updates[k][1]]
    ELSE UpsertEach([i \in DOMAIN tbl \cup {updates[k][1]} |->
                        IF i = updates[k][1] THEN ToStringOrNull(updates[k][2]) ELSE tbl[i]],
                    updates, k + 1, failed)

\* updateSettings of the entries <<key, value>> of its argument, in order; the
\* message it throws is a template with the failing key interpolated.
UpdateSettings(entries, failed) ==
    LET done == UpsertEach(settings, entries, 1, failed) IN
    /\ settings' = done.tbl
    /\ last' = IF done.key = ""
               THEN Returned("updateSettings", <<entries>>, failed, Void)
               ELSE [interpolated |-> done.key] @@
                    Threw("updateSettings", <<entries>>, failed, "Failed to update setting: ")
    /\ UNCHANGED <<site_settings, OutsideSettings>>

\* Arguments of updateSettings: one maintenance key, or all three.
SettingsSamples ==
    {<< <<"maintenance_active", v>> >> : v \in {"true", "false"}}
    \cup {<< <<"maintenance_start", v>> >> : v \in {NULL, "t0", "t1", "soon"}}
    \cup {<< <<"maintenance_end", v>> >> : v \in {NULL, "t0", "t1"}}
    \cup {<< <<"maintenance_active", "true">>, <<"maintenance_start", "t1">>,
             <<"maintenance_end", "t1">> >>}

\* The keys of an argument.
KeysOf(entries) == {entries[k][1] : k \in DOMAIN entries}

defaultSettings ==
    [k \in SettingKeys |->
        CASE k = "maintenance_active" -> "false"
          [] k = "maintenance_message" ->
                "The site is currently down for maintenance. We will be back shortly."
          [] k = "contact_email" -> "support@politirate.com"
          [] OTHER -> NULL]

\* getSiteSettings: the rows of table site_settings (read as key / value rows,
\* as all its readers do) merged over the defaults.
getSiteSettings(failed) ==
    IF failed THEN defaultSettings
    ELSE [k \in SettingKeys \cup DOMAIN site_settings |->
            IF k \in DOMAIN site_settings THEN site_settings[k] ELSE defaultSettings[k]]

GetSiteSettings(failed) ==
    /\ last' = Returned("getSiteSettings", <<>>, failed, getSiteSettings("read" \in failed))
    /\ UNCHANGED <<settingsTables, OutsideSettings>>

\* String(value)
String(value) == IF value = NULL THEN "null" ELSE IF value = UNDEF THEN "undefined" ELSE value

\* updateSiteSettings: one upsert of all the entries of its argument.
UpdateSiteSettingsOneByOne(entries, failed) ==
    /\ site_settings' =
          IF "upsert" \in failed
          THEN [i \in DOMAIN site_settings \cup {entries[1][1]} |->
                   IF i = entries[1][1] THEN String(entries[1][2]) ELSE site_settings[i]]
          ELSE [i \in DOMAIN site_settings \cup KeysOf(entries) |->
                   IF i \in KeysOf(entries)
                   THEN String(entries[CHOOSE k \in DOMAIN entries : entries[k][1] = i][2])
                   ELSE site_settings[i]]
    /\ last' = IF "upsert" \in failed
               THEN Threw("updateSiteSettings", <<entries>>, failed,
                          "Database transaction for updating settings failed.")
               ELSE Returned("updateSiteSettings", <<entries>>, failed, Void)
    /\ UNCHANGED <<settings, OutsideSettings>>
UpdateSiteSettings(entries, failed) ==
    /\ IF "upsert" \in failed
       THEN /\ last' = Threw("updateSiteSettings", <<entries>>, failed,
                             "Database transaction for updating settings failed.")
            /\ UNCHANGED site_settings
       ELSE /\ site_settings' =
                  [i \in DOMAIN site_settings \cup KeysOf(entries) |->
                      IF i \in KeysOf(entries)
                      THEN String(entries[CHOOSE k \in DOMAIN entries : entries[k][1] = i][2])
                      ELSE site_settings[i]]
            /\ last' = Returned("updateSiteSettings", <<entries>>, failed, Void)
    /\ UNCHANGED <<settings, OutsideSettings>>

\* Arguments of updateSiteSettings.
SiteSettingsSamples ==
    {<< <<"maintenance_active", v>> >> : v \in {"true", "false"}}
    \cup {<< <<"contact_phone", v>> >> : v \in {NULL, "555"}}
    \cup {<< <<"contact_email", "a@b.c">>, <<"maintenance_message", NULL>> >>}

\* ------------------------------------------------- support tickets (part_001)

\* 30 * 24 * 60 * 60 * 1000 and 1000 * 60 * 60 milliseconds, in the unit of
\* time of the support desk's clock.
ThirtyDays == 1
OneHour == 1

TicketStatuses == {"open", "in-progress", "resolved", "closed"}
TicketIds == 0..MaxTicketClock

TicketData ==
    [user_id |-> "u1", user_name |-> "Asha", user_email |-> "asha@x.io",
     subject |-> "Login", message |-> "I cannot log in"]

dbToTicket(row) ==
    [row EXCEPT !.resolved_at = Or(row.resolved_at, NULL),
                !.admin_notes = Or(row.admin_notes, NULL)]

OutsideTickets == <<focus, inflight, leaderTables, pollTables, settingsTables, userTables>>

\* createSupportTicket: the columns it does not name take their NULL default.
CreateSupportTicket(data, failed) ==
    LET now == toISOString(clock)
        row == [id |-> clock, user_id |-> data.user_id, user_name |-> data.user_name,
                user_email |-> data.user_email, subject |-> data.subject,
                message |-> data.message, status |-> "open",
                created_at |-> now, updated_at |-> now,
                resolved_at |-> NULL, admin_notes |-> NULL]
    IN  /\ IF InsertFails(support_tickets, row.id, "insert" \in failed)
           THEN /\ last' = Threw("createSupportTicket", <<data>>, failed,
                                 "Failed to create support ticket")
                /\ UNCHANGED support_tickets
           ELSE /\ support_tickets' =
                      [i \in DOMAIN support_tickets \cup {row.id} |->
                          IF i = row.id THEN row ELSE support_tickets[i]]
                /\ last' = Returned("createSupportTicket", <<data>>, failed, Void)
        /\ UNCHANGED <<clock, OutsideTickets>>

\* updateTicketStatus: resolved_at is written only for 'resolved' and 'closed'.
UpdateTicketStatus(ticketId, status, adminNotes, failed) ==
    LET now == toISOString(clock)
        updated(row) ==
            [row EXCEPT !.status = status, !.admin_notes = adminNotes, !.updated_at = now,
                        !.resolved_at = IF status \in {"resolved", "closed"} THEN now ELSE @]
    IN  /\ IF "update" \in failed
           THEN /\ last' = Threw("updateTicketStatus", <<ticketId, status, adminNotes>>, failed,
                                 "Failed to update ticket status")
                /\ UNCHANGED support_tickets
           ELSE /\ support_tickets' =
                      [i \in DOMAIN support_tickets |->
                          IF i = ticketId THEN updated(support_tickets[i])
                          ELSE support_tickets[i]]
                /\ last' = Returned("updateTicketStatus", <<ticketId, status, adminNotes>>,
                                    failed, Void)
        /\ UNCHANGED <<clock, OutsideTickets>>

\* The tickets the automated deletion of getSupportTickets removes at now.
ExpiredNever(tbl, now) == {}
ExpiredOrAtLimit(tbl, now) ==
    LET thirtyDaysAgo == toISOString(now - ThirtyDays) IN
    {i \in DOMAIN tbl :
        /\ tbl[i].status \in {"in-progress", "resolved", "closed"}
        /\ getTime(tbl[i].updated_at) <= getTime(thirtyDaysAgo)}
Expired(tbl, now) ==
    LET thirtyDaysAgo == toISOString(now - ThirtyDays) IN
    {i \in DOMAIN tbl :
        /\ tbl[i].status \in {"in-progress", "resolved", "closed"}
        /\ getTime(tbl[i].updated_at) < getTime(thirtyDaysAgo)}

RECURSIVE OrderByCreatedDesc(_, _)
\* .order('created_at', { ascending: false }) of the rows with the given ids.
OrderByCreatedDesc(tbl, ids) ==
    IF ids = {} THEN <<>>
    ELSE LET newest == CHOOSE i \in ids :
                          \A j \in ids : getTime(tbl[j].created_at) <= getTime(tbl[i].created_at)
         IN  <<dbToTicket(tbl[newest])>> \o OrderByCreatedDesc(tbl, ids \ {newest})

\* getSupportTickets with a status filter (NULL for none): the deletion,
\* whose outcome is not looked at, then the read.
GetSupportTickets(status, failed) ==
    LET kept == IF "delete" \in failed THEN DOMAIN support_tickets
                ELSE DOMAIN support_tickets \ Expired(support_tickets, clock)
        after == [i \in kept |-> support_tickets[i]]
        selected == {i \in kept : status = NULL \/ after[i].status = status}
    IN  /\ support_tickets' = after
        /\ last' = [deleted |-> DOMAIN support_tickets \ kept] @@
                    Returned("getSupportTickets", <<status>>, failed,
                             IF "read" \in failed THEN <<>>
                             ELSE OrderByCreatedDesc(after, selected))
        /\ UNCHANGED <<clock, OutsideTickets>>

\* The object getSupportTicketStats returns when its first read fails.
StatsOnError ==
    [total |-> 0, open |-> 0, inProgress |-> 0, resolved |-> 0, closed |-> 0,
     avgResolutionHours |-> Null, contact_email |-> NULL, contact_phone |-> NULL,
     contact_twitter |-> NULL, contact_linkedin |-> NULL, contact_youtube |-> NULL]

RECURSIVE SumResolution(_, _)
\* The sum over the given tickets of resolved - created.
SumResolution(tbl, ids) ==
    IF ids = {} THEN 0
    ELSE LET i == CHOOSE i \in ids : TRUE IN
         getTime(tbl[i].resolved_at) - getTime(tbl[i].created_at)
         + SumResolution(tbl, ids \ {i})

\* Math.round(totalHours / n) of a non-negative total.
MathRoundAvg(total, n) == (2 * total + OneHour * n) \div (2 * OneHour * n)

getSupportTicketStats(tbl, site, failed) ==
    IF "status" \in failed THEN StatsOnError
    ELSE LET count(status) == Cardinality({i \in DOMAIN tbl : tbl[i].status = status})
             resolvedTickets == {i \in DOMAIN tbl : tbl[i].resolved_at # NULL}
             contact(k) == IF "settings" \in failed THEN NULL ELSE Or(Col(site, k), NULL)
         IN  [total |-> Cardinality(DOMAIN tbl),
              open |-> count("open"), inProgress |-> count("in-progress"),
              resolved |-> count("resolved"), closed |-> count("closed"),
              avgResolutionHours |->
                  IF "resolved" \in failed \/ resolvedTickets = {} THEN Null
                  ELSE [hours |-> MathRoundAvg(SumResolution(tbl, resolvedTickets),
                                               Cardinality(resolvedTickets))],
              contact_email |-> contact("contact_email"),
              contact_phone |-> contact("contact_phone"),
              contact_twitter |-> contact("contact_twitter"),
              contact_linkedin |-> contact("contact_linkedin"),
              contact_youtube |-> contact("contact_youtube")]

GetSupportTicketStats(failed) ==
    /\ last' = Returned("getSupportTicketStats", <<>>, failed,
                        getSupportTicketStats(support_tickets, site_settings, failed))
    /\ UNCHANGED <<clock, ticketTables, OutsideTickets>>

\* ----------------------------------------------------------- users (part_002)

\* email.toLowerCase(), email.split('@')[0] and the capitalised name, on the
\* texts the model uses.
toLowerCase(text) == IF text = "Ann@x.io" THEN "ann@x.io" ELSE text
LocalPart(email) ==
    CASE email = "Ann@x.io" -> "Ann" [] email = "bob@x.io" -> "bob" [] OTHER -> email
Capitalize(name) ==
    CASE name = "bob" -> "Bob" [] name = "robert" -> "Robert" [] OTHER -> name

UserSamples ==
    {[email |-> "Ann@x.io", password |-> "secret", name |-> UNDEF],
     [email |-> "bob@x.io", password |-> UNDEF, name |-> "robert"]}
EmailSamples == {"Ann@x.io", "ann@x.io", "bob@x.io"}
UserIds == 0..MaxClock

\* The user row returned as stored.
KeepPassword(row) == row

\* delete user.password
WithoutPassword(row) == [c \in DOMAIN row \ {"password"} |-> row[c]]

OutsideUsers == <<clock, focus, inflight, leaderTables, pollTables, settingsTables, ticketTables>>

\* addUser: null, not an exception, when the insert fails.
AddUser(user, failed) ==
    LET name == Or(user.name, LocalPart(user.email))
        newUser == [id |-> clock, email |-> toLowerCase(user.email),
                    password |-> Or(user.password, ""), name |-> Capitalize(name),
                    is_blocked |-> FALSE]
    IN  /\ IF InsertFails(users, newUser.id, "insert" \in failed)
           THEN /\ last' = Returned("addUser", <<user>>, failed, Null)
                /\ UNCHANGED users
           ELSE /\ users' = [i \in DOMAIN users \cup {newUser.id} |->
                                IF i = newUser.id THEN newUser ELSE users[i]]
                /\ last' = Returned("addUser", <<user>>, failed, WithoutPassword(newUser))
        /\ UNCHANGED OutsideUsers

\* .single(): the one row selected; an error when there is none or several.
Single(tbl, ids, failed) ==
    IF failed \/ Cardinality(ids) # 1 THEN Null ELSE tbl[CHOOSE i \in ids : TRUE]

FindUserByEmail(email, failed) ==
    /\ last' = Returned("findUserByEmail", <<email>>, failed,
                        Single(users, {i \in DOMAIN users : users[i].email = toLowerCase(email)},
                               "read" \in failed))
    /\ UNCHANGED <<userTables, OutsideUsers>>

FindUserById(id, failed) ==
    LET data == Single(users, {i \in DOMAIN users : i = id}, "read" \in failed) IN
    /\ last' = Returned("findUserById", <<id>>, failed,
                        IF data = Null THEN Null ELSE WithoutPassword(data))
    /\ UNCHANGED <<userTables, OutsideUsers>>

\* The result of findUserById on a users table.
findUserById(tbl, id, failed) ==
    LET data == Single(tbl, {i \in DOMAIN tbl : i = id}, failed) IN
    IF data = Null THEN Null ELSE WithoutPassword(data)

\* The result of addUser on a users table at a clock value.
addUser(tbl, now, user, failed) ==
    IF InsertFails(tbl, now, failed)
    THEN Null
    ELSE WithoutPassword([id |-> now, email |-> toLowerCase(user.email),
                          password |-> Or(user.password, ""),
                          name |-> Capitalize(Or(user.name, LocalPart(user.email))),
                          is_blocked |-> FALSE])

\* getUsers without a search term: every user row with the embedded counts of
\* its ratings, of the leaders it added and of its admin messages (a table no
\* modelled operation writes), the password removed; [] when the read fails.
\* The order of the result is left out.
getUsers(tbl, rt, ld, failed) ==
    IF failed THEN {}
    ELSE {WithoutPassword(
            tbl[i] @@
            [ratings |-> <<[count |-> Cardinality({r \in rt : r.userId = i})]>>,
             leaders |-> <<[count |-> Cardinality({k \in DOMAIN ld :
                                                    ld[k].added_by_user_id = i})]>>,
             admin_messages |-> <<[count |-> 0]>>]) : i \in DOMAIN tbl}

GetUsers(failed) ==
    /\ last' = Returned("getUsers", <<>>, failed,
                        getUsers(users, ratings, leaders, "read" \in failed))
    /\ UNCHANGED <<userTables, OutsideUsers>>

\* isNaN(Number(value)) on the texts the model uses.
IsNaN(value) == value \in {"abc", UNDEF}

\* The profile fields a caller passes; the second one also carries the fields
\* updateUserProfile must not write.
ProfileSamples ==
    {[name |-> "Zed"],
     [id |-> 7, email |-> "evil@x.io", password |-> "hacked", createdAt |-> "t0",
      name |-> "", state |-> "Goa"],
     [age |-> "abc", gender |-> "female"],
     [age |-> "30", gender |-> ""]}

\* dataToUpdate with id, email, password and createdAt deleted.
dataToUpdateAsPassed(profileData) == profileData
dataToUpdate(profileData) ==
    [k \in DOMAIN profileData \ {"id", "email", "password", "createdAt"} |-> profileData[k]]

\* cleanedData: an age that is not a number and every empty text become null.
cleanedData(data) ==
    [k \in DOMAIN data |->
        IF k = "age" /\ IsNaN(data[k]) THEN NULL
        ELSE IF data[k] = "" THEN NULL ELSE data[k]]

\* The users table after update(cleanedData).eq('id', userId), and the value
\* updateUserProfile returns.
updateUserProfile(tbl, userId, profileData, failed) ==
    LET cleaned == cleanedData(dataToUpdate(profileData))
        written == [i \in DOMAIN tbl |-> IF i = userId THEN cleaned @@ tbl[i] ELSE tbl[i]]
    IN  IF "update" \in failed
        THEN [users |-> tbl, ret |-> Null]
        ELSE [users |-> written, ret |-> findUserById(written, userId, "read" \in failed)]

UpdateUserProfile(userId, profileData, failed) ==
    LET done == updateUserProfile(users, userId, profileData, failed) IN
    /\ users' = done.users
    /\ last' = Returned("updateUserProfile", <<userId, profileData>>, failed, done.ret)
    /\ UNCHANGED OutsideUsers

\* ------------------------------------------- calls whose store steps interleave

\* What a step of a call on the leader tables, or on the poll tables, leaves alone.
AroundLeaders == <<clock, focus, pollTables, settingsTables, ticketTables, userTables>>
AroundPolls == <<clock, focus, leaderTables, settingsTables, ticketTables, userTables>>

\* The call in slot c is at the named await of the named operation.
At(c, op, pc) == inflight[c].op = op /\ inflight[c].pc = pc
\* The call in slot c goes on with new locals, or ends.
Resume(c, locals) == inflight' = [inflight EXCEPT ![c] = locals]
Finish(c) == inflight' = [inflight EXCEPT ![c] = Idle]
AllIdle == \A c \in Calls : inflight[c] = Idle

\* submitRatingAndComment, one store call at a time: the read of the existing
\* rating starts the call.
SubmitRatingReadExisting(c, leaderId, userId, newRating, comment) ==
    /\ inflight[c] = Idle
    /\ Resume(c, [op |-> "submitRatingAndComment", pc |-> "upsertRating",
                  leaderId |-> leaderId, userId |-> userId, newRating |-> newRating,
                  comment |-> comment, allRatings |-> {},
                  existing |-> \E r \in ratings : r.userId = userId /\ r.leaderId = leaderId])
    /\ UNCHANGED <<leaderTables, last, AroundLeaders>>

SubmitRatingUpsert(c) ==
    /\ At(c, "submitRatingAndComment", "upsertRating")
    /\ LET call == inflight[c]
           hasComment == ~Falsy(call.comment) /\ TrimLength(call.comment) > 0
       IN  IF call.leaderId \notin DOMAIN leaders
           THEN /\ last' = Threw("submitRatingAndComment",
                                 <<call.leaderId, call.userId, call.newRating, call.comment>>,
                                 {}, "Failed to submit rating")
                /\ Finish(c)
                /\ UNCHANGED ratings
           ELSE /\ ratings' = UpsertRating(ratings, [userId |-> call.userId,
                                                     leaderId |-> call.leaderId,
                                                     rating |-> call.newRating])
                /\ Resume(c, [call EXCEPT !.pc = IF hasComment THEN "upsertComment"
                                                 ELSE "readAll"])
                /\ UNCHANGED last
    /\ UNCHANGED <<leaders, comments, AroundLeaders>>

SubmitRatingUpsertComment(c) ==
    /\ At(c, "submitRatingAndComment", "upsertComment")
    /\ LET call == inflight[c] IN
       /\ comments' = Upsert(comments, [userId |-> call.userId, leaderId |-> call.leaderId,
                                        comment |-> call.comment])
       /\ Resume(c, [call EXCEPT !.pc = "readAll"])
    /\ UNCHANGED <<leaders, ratings, last, AroundLeaders>>

SubmitRatingReadAll(c) ==
    /\ At(c, "submitRatingAndComment", "readAll")
    /\ LET call == inflight[c]
           allRatings == RatingsOf(ratings, call.leaderId)
       IN  Resume(c, [call EXCEPT !.allRatings = allRatings,
                                  !.pc = IF allRatings # {} THEN "updateLeader"
                                         ELSE "readBack"])
    /\ UNCHANGED <<leaderTables, last, AroundLeaders>>

SubmitRatingUpdateLeader(c) ==
    /\ At(c, "submitRatingAndComment", "updateLeader")
    /\ LET call == inflight[c] IN
       /\ leaders' = UpdateAggregate(leaders, call.leaderId, Aggregate(call.allRatings))
       /\ Resume(c, [call EXCEPT !.pc = "readBack"])
    /\ UNCHANGED <<ratings, comments, last, AroundLeaders>>

SubmitRatingReadBack(c) ==
    /\ At(c, "submitRatingAndComment", "readBack")
    /\ LET call == inflight[c] IN
       last' = [existing |-> call.existing] @@
               Returned("submitRatingAndComment",
                        <<call.leaderId, call.userId, call.newRating, call.comment>>, {},
                        getLeaderById(leaders, call.leaderId, FALSE))
    /\ Finish(c)
    /\ UNCHANGED <<leaderTables, AroundLeaders>>

\* deleteRating, one store call at a time: the delete of the rating starts
\* the call.
DeleteRatingRow(c, userId, leaderId) ==
    /\ inflight[c] = Idle
    /\ ratings' = {r \in ratings : ~(r.userId = userId /\ r.leaderId = leaderId)}
    /\ Resume(c, [op |-> "deleteRating", pc |-> "deleteComment", userId |-> userId,
                  leaderId |-> leaderId, allRatings |-> {},
                  removed |-> Cardinality(ratings \ ratings')])
    /\ UNCHANGED <<leaders, comments, last, AroundLeaders>>

DeleteRatingComment(c) ==
    /\ At(c, "deleteRating", "deleteComment")
    /\ LET call == inflight[c] IN
       /\ comments' = {k \in comments :
                          ~(k.userId = call.userId /\ k.leaderId = call.leaderId)}
       /\ Resume(c, [call EXCEPT !.pc = "readAll",
                                  !.removed = @ + Cardinality(comments \ comments')])
    /\ UNCHANGED <<leaders, ratings, last, AroundLeaders>>

DeleteRatingReadAll(c) ==
    /\ At(c, "deleteRating", "readAll")
    /\ LET call == inflight[c] IN
       Resume(c, [call EXCEPT !.allRatings = RatingsOf(ratings, call.leaderId),
                              !.pc = "updateLeader"])
    /\ UNCHANGED <<leaderTables, last, AroundLeaders>>

DeleteRatingUpdateLeader(c) ==
    /\ At(c, "deleteRating", "updateLeader")
    /\ LET call == inflight[c]
           agg == IF call.allRatings = {} THEN [rating |-> 0, review_count |-> 0]
                  ELSE Aggregate(call.allRatings)
       IN  /\ leaders' = UpdateAggregate(leaders, call.leaderId, agg)
           /\ last' = [removed |-> call.removed] @@
                       Returned("deleteRating", <<call.userId, call.leaderId>>, {}, Void)
    /\ Finish(c)
    /\ UNCHANGED <<ratings, comments, AroundLeaders>>

\* updateLeader, one store call at a time: the read of the leader, with the
\* checks on what it returned, starts the call.
UpdateLeaderRead(c, leaderId, leaderData, userId, isAdmin) ==
    LET args == <<leaderId, leaderData, userId, isAdmin>>
        leaderToUpdate == getLeaderById(leaders, leaderId, FALSE)
    IN
    /\ inflight[c] = Idle
    /\ IF leaderToUpdate = Null
       THEN /\ last' = Threw("updateLeader", args, {}, "Leader not found.")
            /\ UNCHANGED inflight
       ELSE IF NotAuthorized(isAdmin, leaderToUpdate, userId)
       THEN /\ last' = Threw("updateLeader", args, {},
                             "You are not authorized to edit this leader.")
            /\ UNCHANGED inflight
       ELSE /\ Resume(c, [op |-> "updateLeader", pc |-> "update", leaderId |-> leaderId,
                          leaderData |-> leaderData, userId |-> userId, isAdmin |-> isAdmin,
                          leaderToUpdate |-> leaderToUpdate])
            /\ UNCHANGED last
    /\ UNCHANGED <<leaderTables, AroundLeaders>>

UpdateLeaderWrite(c) ==
    /\ At(c, "updateLeader", "update")
    /\ LET call == inflight[c]
           newStatus == NewStatus(call.isAdmin, call.leaderToUpdate)
           newAdminComment ==
               IF call.isAdmin THEN call.leaderToUpdate.adminComment
               ELSE "User updated details. Pending re-approval."
       IN  /\ leaders' = IF call.leaderId \in DOMAIN leaders
                         THEN [leaders EXCEPT ![call.leaderId] =
                                  updateData(@, call.leaderData, newStatus, newAdminComment)]
                         ELSE leaders
           /\ Resume(c, [call EXCEPT !.pc = "readBack"])
    /\ UNCHANGED <<ratings, comments, last, AroundLeaders>>

UpdateLeaderReadBack(c) ==
    /\ At(c, "updateLeader", "readBack")
    /\ LET call == inflight[c] IN
       last' = [was |-> call.leaderToUpdate.status] @@
               Returned("updateLeader",
                        <<call.leaderId, call.leaderData, call.userId, call.isAdmin>>, {},
                        getLeaderById(leaders, call.leaderId, FALSE))
    /\ Finish(c)
    /\ UNCHANGED <<leaderTables, AroundLeaders>>

\* submitPollResponse, one store call at a time: responseId and createdAt are
\* taken on entry, and the read of an existing response starts the call.
SubmitPollResponseRead(c, pollId, userId, answers) ==
    /\ inflight[c] = Idle
    /\ IF AlreadyResponded(SingleResponse(poll_responses, pollId, userId, FALSE))
       THEN /\ last' = Threw("submitPollResponse", <<pollId, userId>>, {},
                             "User has already responded to this poll")
            /\ UNCHANGED inflight
       ELSE /\ Resume(c, [op |-> "submitPollResponse", pc |-> "insertResponse",
                          pollId |-> pollId, userId |-> userId, answers |-> answers,
                          responseId |-> clock, createdAt |-> clock])
            /\ UNCHANGED last
    /\ UNCHANGED <<pollTables, AroundPolls>>

SubmitPollResponseInsert(c) ==
    /\ At(c, "submitPollResponse", "insertResponse")
    /\ LET call == inflight[c] IN
       IF InsertFails(poll_responses, call.responseId, FALSE) \/ call.pollId \notin DOMAIN polls
       THEN /\ last' = Threw("submitPollResponse", <<call.pollId, call.userId>>, {},
                             "Failed to submit poll response")
            /\ Finish(c)
            /\ UNCHANGED poll_responses
       ELSE /\ poll_responses' =
                   (call.responseId :> [id |-> call.responseId, poll_id |-> call.pollId,
                                        user_id |-> call.userId,
                                        created_at |-> call.createdAt]) @@ poll_responses
            /\ Resume(c, [call EXCEPT !.pc = "insertAnswers"])
            /\ UNCHANGED last
    /\ UNCHANGED <<polls, poll_questions, poll_options, poll_answers, AroundPolls>>

SubmitPollResponseInsertAnswers(c) ==
    /\ At(c, "submitPollResponse", "insertAnswers")
    /\ LET call == inflight[c]
           answerError == \E k \in DOMAIN call.answers :
                             \/ call.answers[k].questionId \notin DOMAIN poll_questions
                             \/ call.answers[k].selectedOptionId \notin DOMAIN poll_options
       IN  IF answerError
           THEN /\ last' = Threw("submitPollResponse", <<call.pollId, call.userId>>, {},
                                 "Failed to submit poll answers")
                /\ UNCHANGED poll_answers
           ELSE /\ poll_answers' = InsertAll(poll_answers,
                                             answersToInsert(call.responseId, call.answers))
                /\ last' = Returned("submitPollResponse", <<call.pollId, call.userId>>,
                                    {}, Void)
    /\ Finish(c)
    /\ UNCHANGED <<polls, poll_questions, poll_options, poll_responses, AroundPolls>>

\* Time passes: the next millisecond.
Advance(limit) ==
    /\ clock < limit
    /\ clock' = clock + 1
    /\ UNCHANGED <<tables, last, focus, inflight>>

Tick == Advance(MaxClock)
TickTickets == Advance(MaxTicketClock)

\* ------------------------------------------------------------ specifications

NoCall == [op |-> "none", args |-> <<>>, failed |-> {}, outcome |-> "none"]

Init ==
    /\ clock = 0
    /\ leaders = EmptyTable
    /\ ratings = {}
    /\ comments = {}
    /\ polls = EmptyTable
    /\ poll_questions = EmptyTable
    /\ poll_options = EmptyTable
    /\ poll_responses = EmptyTable
    /\ poll_answers = EmptyTable
    /\ settings = EmptyTable
    /\ site_settings = EmptyTable
    /\ support_tickets = EmptyTable
    /\ users = EmptyTable
    /\ last = NoCall
    /\ inflight = [c \in Calls |-> Idle]

\* The store calls of one call that fail: none, or one of its steps.
Failures(steps) == {{}} \cup {{x} : x \in steps}

\* A step of the named operation (time does not pass during a call).
CallStep(op) == last'.op = op /\ clock' = clock

\* The profile of one leader, within one millisecond: create, edit, moderate,
\* delete, read.
InitLeaders == Init /\ focus = "leaders"
NextLeaders ==
    \/ \E d \in LeaderDataSamples, u \in {"u1", NULL}, f \in Failures({"insert"}) :
          AddLeader(d, u, f)
    \/ \E d \in LeaderDataSamples, u \in {"u1", "u2", NULL}, a \in BOOLEAN,
          f \in Failures({"read", "update", "readBack"}) :
          UpdateLeader(0, d, u, a, f)
    \/ \E f \in Failures({"update"}) : ApproveLeader(0, f)
    \/ \E s \in LeaderStatuses, c \in AdminCommentSamples, f \in Failures({"update"}) :
          UpdateLeaderStatus(0, s, c, f)
    \/ \E f \in Failures({"deleteRatings", "deleteComments", "deleteLeader"}) :
          DeleteLeader(0, f)
    \/ \E f \in Failures({"read"}) : GetLeaders(f)
    \/ \E l \in LeaderIds, f \in Failures({"read"}) : GetLeaderById(l, f)
    \/ \E u \in {"u1", "u2"}, f \in Failures({"read"}) : GetLeadersAddedByUser(u, f)
SpecLeaders == InitLeaders /\ [][NextLeaders]_vars

\* The ratings of leader 0 by three users, within one millisecond; only u1
\* writes comments.
InitRatings == Init /\ focus = "ratings"
NextRatings ==
    \/ \E f \in Failures({"insert"}) : AddLeader(LeaderDataMin, "u1", f)
    \/ \E u \in Users, r \in RatingSamples, c \in CommentSamples,
          f \in Failures({"readExisting", "upsertRating", "upsertComment", "readAll",
                          "updateLeader", "readBack"}) :
          /\ c = NULL \/ u = "u1"
          /\ SubmitRatingAndComment(0, u, r, c, f)
    \/ \E u \in Users,
          f \in Failures({"deleteRating", "deleteComment", "readAll", "updateLeader"}) :
          DeleteRating(u, 0, f)
SpecRatings == InitRatings /\ [][NextRatings]_vars

\* The removal of leader 0 together with its ratings and comments.
InitRemoval == Init /\ focus = "removal"
NextRemoval ==
    \/ \E f \in Failures({"insert"}) : AddLeader(LeaderDataMin, "u1", f)
    \/ \E u \in {"u1", "u2"}, c \in {NULL, "good"}, f \in Failures({"upsertComment"}) :
          SubmitRatingAndComment(0, u, 2, c, f)
    \/ \E f \in Failures({"deleteRatings", "deleteComments", "deleteLeader"}) :
          DeleteLeader(0, f)
    \/ \E f \in Failures({"read"}) : GetLeaderById(0, f)
SpecRemoval == InitRemoval /\ [][NextRemoval]_vars

\* Scores of any size given to leader 0 by two users.
InitScores == Init /\ focus = "scores"
NextScores ==
    \/ \E f \in Failures({"insert"}) : AddLeader(LeaderDataMin, "u1", f)
    \/ \E u \in {"u1", "u2"}, r \in ScoreSamples, f \in Failures({"updateLeader"}) :
          SubmitRatingAndComment(0, u, r, NULL, f)
    \/ \E u \in {"u1", "u2"}, f \in Failures({"updateLeader"}) : DeleteRating(u, 0, f)
SpecScores == InitScores /\ [][NextScores]_vars

\* The creation of polls with any one insert failing, and their read.
InitPollCreation == Init /\ focus = "poll_creation"
NextPollCreation ==
    \/ Tick
    \/ \E d \in PollSamples, f \in Failures(PollSteps) : CreatePoll(d, f)
    \/ \E p \in PollIds, f \in Failures({"read"}) : GetPollById(p, f)
SpecPollCreation == InitPollCreation /\ [][NextPollCreation]_vars

\* Polls created whole, in order or shuffled, and read back.
InitPollRead == Init /\ focus = "poll_read"
NextPollRead ==
    \/ Tick
    \/ \E d \in {PollSample, PollShuffled}, f \in Failures({"poll"}) : CreatePoll(d, f)
    \/ \E p \in PollIds, f \in Failures({"read"}) : GetPollById(p, f)
    \/ \E p \in PollIds, f \in Failures({"read"}) : GetPollResults(p, f)
SpecPollRead == InitPollRead /\ [][NextPollRead]_vars

\* The two settings tables and the maintenance check.
InitMaintenance == Init /\ focus = "maintenance"
NextMaintenance ==
    \/ \E v \in {"true", "false"}, f \in Failures({"upsert"}) :
          UpdateSiteSettings(<< <<"maintenance_active", v>> >>, f)
    \/ \E e \in SettingsSamples : UpdateSettings(e, {})
    \/ \E f \in Failures({"read"}) : IsMaintenanceActive(f)
    \/ \E f \in Failures({"read"}) : GetSiteSettings(f)
SpecMaintenance == InitMaintenance /\ [][NextMaintenance]_vars

\* One poll and the responses of two users to it.
InitPolls == Init /\ focus = "polls"
NextPolls ==
    \/ Tick
    \/ \E d \in PollSamples, f \in Failures({"poll"}) :
          polls = EmptyTable /\ CreatePoll(d, f)
    \/ \E p \in PollIds, u \in PollUsers,
          f \in Failures({"readExisting", "insertResponse", "insertAnswers"}) :
          \E a \in AnswerSamples(p) : SubmitPollResponse(p, u, a, f)
    \/ \E p \in PollIds, f \in Failures({"read"}) : GetPollResults(p, f)
    \/ \E p \in PollIds, u \in PollUsers, f \in Failures({"read"}) :
          HasUserRespondedToPoll(p, u, f)
SpecPolls == InitPolls /\ [][NextPolls]_vars

\* The maintenance settings of table settings and the maintenance check.
InitSettings == Init /\ focus = "settings"
NextSettings ==
    \/ Tick
    \/ \E e \in SettingsSamples : \E f \in Failures(KeysOf(e)) : UpdateSettings(e, f)
    \/ \E f \in Failures({"read"}) : GetSettings(f)
    \/ \E f \in Failures({"read"}) : IsMaintenanceActive(f)
SpecSettings == InitSettings /\ [][NextSettings]_vars

\* The site settings of table site_settings.
InitSiteSettings == Init /\ focus = "site_settings"
NextSiteSettings ==
    \/ \E e \in SiteSettingsSamples, f \in Failures({"upsert"}) : UpdateSiteSettings(e, f)
    \/ \E f \in Failures({"read"}) : GetSiteSettings(f)
SpecSiteSettings == InitSiteSettings /\ [][NextSiteSettings]_vars

\* The support desk: ticket 0 is worked on, later tickets stay open.
InitTickets == Init /\ focus = "tickets"
NextTickets ==
    \/ TickTickets
    \/ \E f \in Failures({"insert"}) : CreateSupportTicket(TicketData, f)
    \/ \E st \in TicketStatuses, f \in Failures({"update"}) :
           UpdateTicketStatus(0, st, NULL, f)
    \/ \E st \in {NULL, "open"}, f \in Failures({"delete", "read"}) : GetSupportTickets(st, f)
    \/ \E f \in Failures({"status", "resolved", "settings"}) : GetSupportTicketStats(f)
SpecTickets == InitTickets /\ [][NextTickets]_vars

\* Accounts: sign up and look up.
InitUsers == Init /\ focus = "users"
NextUsers ==
    \/ Tick
    \/ \E u \in UserSamples, f \in Failures({"insert"}) : AddUser(u, f)
    \/ \E e \in EmailSamples, f \in Failures({"read"}) : FindUserByEmail(e, f)
    \/ \E i \in UserIds, f \in Failures({"read"}) : FindUserById(i, f)
SpecUsers == InitUsers /\ [][NextUsers]_vars

\* The users table with its reads and the profile update.
InitProfiles == Init /\ focus = "profiles"
NextProfiles ==
    \/ Tick
    \/ \E u \in UserSamples, f \in Failures({"insert"}) : AddUser(u, f)
    \/ \E f \in Failures({"read"}) : GetUsers(f)
    \/ \E i \in UserIds, f \in Failures({"read"}) : FindUserById(i, f)
    \/ \E i \in UserIds, d \in ProfileSamples, f \in Failures({"update", "read"}) :
          UpdateUserProfile(i, d, f)
SpecProfiles == InitProfiles /\ [][NextProfiles]_vars

\* submitRatingAndComment and deleteRating calls on leader 0 by different
\* users, their store steps interleaving.
OtherUsers(c, u) ==
    \A d \in Calls \ {c} : IF inflight[d] = Idle THEN TRUE ELSE inflight[d].userId # u
InitRatingCalls == Init /\ focus = "rating_calls"
NextRatingCalls ==
    \/ AddLeader(LeaderDataMin, "u1", {})
    \/ \E c \in Calls, u \in {"u1", "u2"}, r \in RatingSamples, k \in {NULL, "Good"} :
          /\ OtherUsers(c, u)
          /\ k = NULL \/ u = "u1"
          /\ SubmitRatingReadExisting(c, 0, u, r, k)
    \/ \E c \in Calls : SubmitRatingUpsert(c)
    \/ \E c \in Calls : SubmitRatingUpsertComment(c)
    \/ \E c \in Calls : SubmitRatingReadAll(c)
    \/ \E c \in Calls : SubmitRatingUpdateLeader(c)
    \/ \E c \in Calls : SubmitRatingReadBack(c)
    \/ \E c \in Calls, u \in {"u1", "u2"} : OtherUsers(c, u) /\ DeleteRatingRow(c, u, 0)
    \/ \E c \in Calls : DeleteRatingComment(c)
    \/ \E c \in Calls : DeleteRatingReadAll(c)
    \/ \E c \in Calls : DeleteRatingUpdateLeader(c)
SpecRatingCalls == InitRatingCalls /\ [][NextRatingCalls]_vars

\* submitPollResponse calls on one poll, their store steps interleaving.
InitResponseCalls == Init /\ focus = "response_calls"
NextResponseCalls ==
    \/ Tick
    \/ polls = EmptyTable /\ CreatePoll(PollSample, {})
    \/ \E c \in Calls, u \in PollUsers, a \in AnswerSamples(0) :
          SubmitPollResponseRead(c, 0, u, a)
    \/ \E c \in Calls : SubmitPollResponseInsert(c)
    \/ \E c \in Calls : SubmitPollResponseInsertAnswers(c)
SpecResponseCalls == InitResponseCalls /\ [][NextResponseCalls]_vars

\* Edits of leader 0 whose store steps interleave with each other and with
\* the moderation of the leader.
InitEditCalls == Init /\ focus = "edit_calls"
NextEditCalls ==
    \/ AddLeader(LeaderDataMin, "u1", {})
    \/ \E c \in Calls, a \in BOOLEAN :
          UpdateLeaderRead(c, 0, LeaderDataFull, IF a THEN "admin" ELSE "u1", a)
    \/ \E c \in Calls : UpdateLeaderWrite(c)
    \/ \E c \in Calls : UpdateLeaderReadBack(c)
    \/ ApproveLeader(0, {})
    \/ \E s \in LeaderStatuses : UpdateLeaderStatus(0, s, "Needs a photo", {})
SpecEditCalls == InitEditCalls /\ [][NextEditCalls]_vars

\* The whole program, one module exercised at a time.
Modules == {"leaders", "ratings", "polls", "settings", "site_settings", "tickets", "users"}
InitAll == Init /\ focus \in Modules
NextAll ==
    \/ focus = "leaders" /\ NextLeaders
    \/ focus = "ratings" /\ NextRatings
    \/ focus = "polls" /\ NextPolls
    \/ focus = "settings" /\ NextSettings
    \/ focus = "site_settings" /\ NextSiteSettings
    \/ focus = "tickets" /\ NextTickets
    \/ focus = "users" /\ NextUsers
SpecAll == InitAll /\ [][NextAll]_vars

\* ------------------------------------------------------------------ claims

Abs(x) == IF x < 0 THEN -x ELSE x

\* h hundredths is total / n rounded to two decimals.
IsMeanRounded2(h, total, n) == 2 * Abs(100 * total - h * n) <= n

\* C1: after a submitRatingAndComment call in which every store operation
\* succeeded, the leader row's rating is the mean of the leader's ratings rows
\* rounded to two decimals and its review_count is the number of those rows
\* (the returned leader carries the same two values).
C1_AggregateAfterSubmit ==
    (last.op = "submitRatingAndComment" /\ last.outcome = "returned" /\ last.failed = {}) =>
        LET l == last.args[1]
            rows == RatingsOf(ratings, l)
        IN  /\ l \in DOMAIN leaders
            /\ rows # {}
            /\ leaders[l].review_count = Cardinality(rows)
            /\ IsMeanRounded2(leaders[l].rating, SumRating(rows), Cardinality(rows))
            /\ last.ret.rating = leaders[l].rating
            /\ last.ret.reviewCount = leaders[l].review_count

\* C1 witness: a third rating was submitted and the mean 5/3 was rounded up to 1.67.
C1_Witness ==
    /\ last.op = "submitRatingAndComment" /\ last.outcome = "returned" /\ last.failed = {}
    /\ 0 \in DOMAIN leaders
    /\ Cardinality(RatingsOf(ratings, 0)) = 3
    /\ SumRating(RatingsOf(ratings, 0)) = 5
    /\ leaders[0].rating = 167

\* At most one ratings row per (userId, leaderId).
OneRatingPerPair(tbl) ==
    \A r1 \in tbl, r2 \in tbl :
        (r1.userId = r2.userId /\ r1.leaderId = r2.leaderId) => r1 = r2

C2_OnlySubmitterOrAdminEdits ==
    [][CallStep("updateLeader") =>
          LET l == last'.args[1]
              u == last'.args[3]
              isAdmin == last'.args[4]
          IN  /\ l \notin DOMAIN leaders =>
                    /\ last'.outcome = "threw"
                    /\ last'.msg = "Leader not found."
                    /\ tables' = tables
              /\ (l \in DOMAIN leaders /\ ~isAdmin /\ leaders[l].added_by_user_id # u) =>
                    /\ last'.outcome = "threw"
                    /\ "read" \notin last'.failed =>
                          last'.msg = "You are not authorized to edit this leader."
                    /\ tables' = tables
      ]_vars

\* C2 witness: u2 was refused the edit of a leader that u1 added.
C2_Witness ==
    /\ last.op = "updateLeader" /\ last.outcome = "threw"
    /\ last.msg = "You are not authorized to edit this leader."
    /\ last.args[3] = "u2" /\ ~last.args[4]
    /\ last.args[1] \in DOMAIN leaders
    /\ leaders[last.args[1]].added_by_user_id = "u1"

\* Two field values are the same; null and undefined both stand for no value.
Same(a, b) == a = b \/ (a \in {NULL, UNDEF} /\ b \in {NULL, UNDEF})

\* The leader read back carries the fields of leaderData.
SameLeaderFieldsButElections(leader, leaderData) ==
    /\ leader.name = leaderData.name
    /\ leader.partyName = leaderData.partyName
    /\ leader.gender = leaderData.gender
    /\ leader.age = leaderData.age
    /\ leader.photoUrl = leaderData.photoUrl
    /\ leader.constituency = leaderData.constituency
    /\ leader.nativeAddress = leaderData.nativeAddress
    /\ leader.electionType = leaderData.electionType
    /\ Same(leader.location.state, leaderData.location.state)
    /\ Same(leader.location.district, leaderData.location.district)
    /\ Same(leader.manifestoUrl, leaderData.manifestoUrl)
    /\ Same(leader.twitterUrl, leaderData.twitterUrl)
SameLeaderFields(leader, leaderData) ==
    /\ SameLeaderFieldsButElections(leader, leaderData)
    /\ leader.previousElections = leaderData.previousElections

\* The id of the row added last: ids are clock values.
NewestLeader == CHOOSE i \in DOMAIN leaders : \A j \in DOMAIN leaders : j <= i

\* C10: after addLeader(data, userId) returned, the leader read back by
\* getLeaderById, and by getLeadersAddedByUser(userId), carries the fields of
\* data, previousElections included, and addedByUserId = userId.
C10_CreateThenRead ==
    (last.op = "addLeader" /\ last.outcome = "returned") =>
        LET data == last.args[1]
            userId == last.args[2]
            byId == getLeaderById(leaders, NewestLeader, FALSE)
        IN  /\ byId # Null
            /\ SameLeaderFields(byId, data)
            /\ Same(byId.addedByUserId, userId)
            /\ userId # NULL => byId \in getLeadersAddedByUser(leaders, userId, FALSE)

\* All fields but previousElections do come back as passed.
C10_AllButElections ==
    (last.op = "addLeader" /\ last.outcome = "returned") =>
        LET data == last.args[1]
            userId == last.args[2]
            byId == getLeaderById(leaders, NewestLeader, FALSE)
        IN  /\ byId # Null
            /\ SameLeaderFieldsButElections(byId, data)
            /\ Same(byId.addedByUserId, userId)
            /\ userId # NULL => byId \in getLeadersAddedByUser(leaders, userId, FALSE)

\* At most one poll_responses row per (poll, user).
OneResponsePerPollUser(tbl) ==
    \A i \in DOMAIN tbl : ResponsesOf(tbl, tbl[i].poll_id, tbl[i].user_id) = {i}

IsPercentageRounded(p, count, total) == 2 * Abs(100 * count - p * total) <= total

\* C6: getPollResults returns one result per question of the poll; its
\* totalResponses is the number of poll_answers rows of the question, each
\* option's count the number of those rows that select the option, and each
\* percentage count / totalResponses * 100 rounded to the nearest integer, or 0
\* when totalResponses is 0.
C6_PollResultCounts ==
    (last.op = "getPollResults" /\ last.failed = {} /\ last.args[1] \in DOMAIN polls) =>
        /\ {res.questionId : res \in last.ret}
             = {q \in DOMAIN poll_questions : poll_questions[q].poll_id = last.args[1]}
        /\ \A res \in last.ret :
              LET rows == {i \in DOMAIN poll_answers :
                              poll_answers[i].question_id = res.questionId}
              IN  /\ res.totalResponses = Cardinality(rows)
                  /\ {o.optionId : o \in res.options}
                       = {i \in DOMAIN poll_options :
                             poll_options[i].question_id = res.questionId}
                  /\ \A o \in res.options :
                        /\ o.count = Cardinality({i \in rows :
                                          poll_answers[i].selected_option_id = o.optionId})
                        /\ IF res.totalResponses = 0 THEN o.percentage = 0
                           ELSE IsPercentageRounded(o.percentage, o.count, res.totalResponses)

\* C6 witness: a question with three answers, two of them for one option: 67%.
C6_Witness ==
    /\ last.op = "getPollResults" /\ last.failed = {}
    /\ \E res \in last.ret :
          /\ res.totalResponses = 3
          /\ \E o \in res.options : o.count = 2 /\ o.percentage = 67

RECURSIVE SumPercentage(_)
SumPercentage(options) ==
    IF options = {} THEN 0
    ELSE LET o == CHOOSE x \in options : TRUE
         IN  o.percentage + SumPercentage(options \ {o})

\* The percentages of a result sum to 100 up to half a point per option.
SumsToAbout100(res) ==
    2 * Abs(SumPercentage(res.options) - 100) <= Cardinality(res.options)

\* Every answer of the question selects one of the question's own options.
AnswersSelectOwnOptions(questionId) ==
    \A i \in DOMAIN poll_answers :
        poll_answers[i].question_id = questionId =>
            /\ poll_answers[i].selected_option_id \in DOMAIN poll_options
            /\ poll_options[poll_answers[i].selected_option_id].question_id = questionId

\* C7 as claimed: for every question returned by getPollResults that has at
\* least one answer, the percentages of its options sum to 100 up to half a
\* point per option, whatever answers submitPollResponse recorded.
C7_PercentagesSumAnyAnswers ==
    (last.op = "getPollResults" /\ last.failed = {}) =>
        \A res \in last.ret : res.totalResponses >= 1 => SumsToAbout100(res)

\* C7 amended: the same, for every question all of whose answers select one
\* of the question's own options.
C7_PercentagesSum ==
    (last.op = "getPollResults" /\ last.failed = {}) =>
        \A res \in last.ret :
            (res.totalResponses >= 1 /\ AnswersSelectOwnOptions(res.questionId)) =>
                SumsToAbout100(res)

\* C7 witness: three options with one answer each: 33 + 33 + 33 = 99.
C7_Witness ==
    /\ last.op = "getPollResults" /\ last.failed = {}
    /\ \E res \in last.ret :
          /\ res.totalResponses = 3
          /\ AnswersSelectOwnOptions(res.questionId)
          /\ SumPercentage(res.options) = 99

\* The stored value of a setting, NULL when there is no row for it.
Stored(key) == IF key \in DOMAIN settings THEN settings[key] ELSE NULL

\* The instant of a stored date text is later / earlier than now.
StartsAfter(key, now) == \E t \in Instants : Stored(key) = toISOString(t) /\ now < t
EndsBefore(key, now) == \E t \in Instants : Stored(key) = toISOString(t) /\ t < now

\* C5: isMaintenanceActive returns true exactly when the settings read
\* succeeds, the stored maintenance_active is 'true', now is not before the
\* stored maintenance_start (when one is set) and not after the stored
\* maintenance_end (when one is set); otherwise it returns false.
C5_MaintenanceActive ==
    last.op = "isMaintenanceActive" =>
        /\ last.outcome = "returned"
        /\ last.ret = (/\ last.failed = {}
                       /\ Stored("maintenance_active") = "true"
                       /\ ~StartsAfter("maintenance_start", last.now)
                       /\ ~EndsBefore("maintenance_end", last.now))

\* C5 witness: maintenance is on and now is the very instant of its end.
C5_Witness ==
    /\ last.op = "isMaintenanceActive" /\ last.failed = {}
    /\ last.ret
    /\ Stored("maintenance_start") = "t0"
    /\ Stored("maintenance_end") = "t1"
    /\ last.now = 1

\* The store calls that read; every other step of an operation is a write.
ReadSteps == {"read", "readExisting", "readAll", "readBack", "status", "resolved", "settings"}

\* C8: every write operation throws an Error with a static message when a
\* store write it issues fails, and never reports success after a failed
\* write.
C8_FailedWriteThrows ==
    (last.op # "none" /\ last.failed \ ReadSteps # {}) =>
        /\ last.outcome = "threw"
        /\ "interpolated" \notin DOMAIN last

ReadOps ==
    {"getLeaders", "getLeaderById", "getLeadersAddedByUser", "getPollResults",
     "hasUserRespondedToPoll", "getSettings", "isMaintenanceActive", "getSiteSettings",
     "getSupportTickets", "getSupportTicketStats", "findUserByEmail", "findUserById"}

\* This step is a call of a read operation one of whose reads failed.
FailedReadCall == clock' = clock /\ last'.op \in ReadOps /\ last'.failed \cap ReadSteps # {}

\* The call returned what its operation returns on a failed read: an empty
\* collection, null / undefined, false, or its hardcoded default object.
ReturnedDefault(call) ==
    /\ call.outcome = "returned"
    /\ CASE call.op \in {"getLeaders", "getLeadersAddedByUser", "getPollResults"} ->
               call.ret = {}
         [] call.op \in {"getLeaderById", "findUserByEmail", "findUserById"} ->
               call.ret = Null
         [] call.op \in {"hasUserRespondedToPoll", "isMaintenanceActive"} ->
               call.ret = FALSE
         [] call.op = "getSupportTickets" -> call.ret = <<>>
         [] call.op = "getSettings" -> call.ret = getSettingsOnError
         [] call.op = "getSiteSettings" -> call.ret = defaultSettings
         [] call.op = "getSupportTicketStats" -> call.ret = StatsOnError

\* The failed read is the operation's only or first one (a later read of
\* getSupportTicketStats only nulls the fields computed from it).
FirstReadFailed(call) == call.failed \cap {"read", "status"} # {}

\* C9 as stated: a read operation whose read fails does not throw, returns
\* its default and leaves every table of the store as it was.
C9_FailedReadLeavesStore ==
    [][FailedReadCall =>
          /\ last'.outcome = "returned"
          /\ FirstReadFailed(last') => ReturnedDefault(last')
          /\ tables' = tables]_vars

\* What getSupportTickets may do to the store: remove tickets that are not
\* open, and nothing else.
OnlyClosedTicketsRemoved ==
    /\ UNCHANGED <<leaderTables, pollTables, settingsTables, userTables>>
    /\ DOMAIN support_tickets' \subseteq DOMAIN support_tickets
    /\ \A i \in DOMAIN support_tickets' : support_tickets'[i] = support_tickets[i]
    /\ \A i \in DOMAIN support_tickets \ DOMAIN support_tickets' :
           support_tickets[i].status # "open"

\* C9: a read operation whose read fails does not throw and returns its
\* default; it leaves every table of the store as it was, except
\* getSupportTickets, whose deletion of old tickets that are not open has
\* already run when its read fails.
C9_FailedReadDefaults ==
    [][FailedReadCall =>
          /\ last'.outcome = "returned"
          /\ FirstReadFailed(last') => ReturnedDefault(last')
          /\ IF last'.op = "getSupportTickets" THEN OnlyClosedTicketsRemoved
             ELSE tables' = tables]_vars

\* C9 witness: getLeaders returned [] on a failed read although an approved
\* leader is stored.
C9_Witness ==
    /\ last.op = "getLeaders" /\ "read" \in last.failed
    /\ last.outcome = "returned" /\ last.ret = {}
    /\ \E i \in DOMAIN leaders : leaders[i].status = "approved"

\* The value an argument of updateSiteSettings passes for a key it holds.
Passed(entries, key) == entries[CHOOSE k \in DOMAIN entries : entries[k][1] = key][2]

\* C11: after a successful updateSiteSettings(s), getSiteSettings returns for
\* every key of s exactly the value passed (null included) and for every
\* other key the value it returned before.
C11_UpdateThenRead ==
    [][(CallStep("updateSiteSettings") /\ last'.outcome = "returned") =>
          LET s == last'.args[1]
              before == getSiteSettings(FALSE)
              after == getSiteSettings(FALSE)'
          IN  \A k \in DOMAIN after :
                 after[k] = IF k \in KeysOf(s) THEN Passed(s, k) ELSE before[k]
      ]_vars

\* What holds instead: a null value reads back as the text 'null'.
C11_NullReadsBackAsText ==
    [][(CallStep("updateSiteSettings") /\ last'.outcome = "returned") =>
          LET s == last'.args[1]
              before == getSiteSettings(FALSE)
              after == getSiteSettings(FALSE)'
          IN  \A k \in DOMAIN after :
                 after[k] = IF k \in KeysOf(s)
                            THEN (IF Passed(s, k) = NULL THEN "null" ELSE Passed(s, k))
                            ELSE before[k]
      ]_vars

BecomesApproved(i) ==
    /\ i \in DOMAIN leaders' /\ leaders'[i].status = "approved"
    /\ i \notin DOMAIN leaders \/ leaders[i].status # "approved"

\* C13: getLeaders returns only leaders stored as 'approved'; addLeader stores
\* its leader as 'pending' with rating 0 and review_count 0; and a leader
\* becomes 'approved' only by approveLeader or updateLeaderStatus(...,
\* 'approved', ...) applied to it.
C13_OnlyApprovedListed ==
    [][/\ (CallStep("getLeaders") /\ last'.outcome = "returned") =>
             \A x \in last'.ret :
                 x.id \in DOMAIN leaders /\ leaders[x.id].status = "approved"
       /\ (CallStep("addLeader") /\ last'.outcome = "returned") =>
             /\ DOMAIN leaders' = DOMAIN leaders \cup {clock}
             /\ leaders'[clock].status = "pending"
             /\ leaders'[clock].rating = 0
             /\ leaders'[clock].review_count = 0
       /\ \A i \in LeaderIds :
             BecomesApproved(i) =>
                 /\ last'.args[1] = i
                 /\ \/ last'.op = "approveLeader"
                    \/ last'.op = "updateLeaderStatus" /\ last'.args[2] = "approved"
      ]_vars

\* C13 witness: getLeaders read the store while it held a leader that was
\* not approved, and did not return it.
C13_Witness ==
    /\ last.op = "getLeaders" /\ last.failed = {}
    /\ last.ret = {}
    /\ \E i \in DOMAIN leaders : leaders[i].status = "rejected"

\* C14: every stored leader's status is 'pending', 'approved' or 'rejected'.
C14_StatusVocabulary ==
    \A i \in DOMAIN leaders : leaders[i].status \in {"pending", "approved", "rejected"}

\* C14 witness: a submitter's edit has stored the status of a leader that was
\* rejected before.
C14_Witness ==
    /\ last.op = "updateLeader" /\ last.outcome = "returned"
    /\ ~last.args[4]
    /\ last.was = "rejected"
    /\ last.args[1] \in DOMAIN leaders

\* C17: after a successful updateLeader by a non-admin, the leader's status
\* is 'pending' and its admin_comment is 'User updated details. Pending
\* re-approval.', whatever the status was, and getLeaders does not return the
\* leader.
C17_EditSendsBackToModeration ==
    [][(CallStep("updateLeader") /\ last'.outcome = "returned" /\ ~last'.args[4]) =>
          LET l == last'.args[1] IN
          /\ leaders'[l].status = "pending"
          /\ leaders'[l].admin_comment = "User updated details. Pending re-approval."
          /\ \A x \in getLeaders(leaders', FALSE) : x.id # l
      ]_vars

\* C17 witness: the submitter edited an approved leader, which is now pending.
C17_Witness ==
    /\ last.op = "updateLeader" /\ last.outcome = "returned"
    /\ ~last.args[4]
    /\ last.was = "approved"
    /\ leaders[last.args[1]].status = "pending"

\* C15: every stored rating is a score from 1 to 5, and every leader's
\* aggregate rating (in hundredths) is 0 or between 1 and 5.
C15_ScoresInRange ==
    /\ \A r \in ratings : r.rating \in 1..5
    /\ \A i \in DOMAIN leaders :
          leaders[i].rating = 0 \/ leaders[i].rating \in 100..500

\* C16: updateSiteSettings either returns with every key of its argument
\* written and nothing else changed, or throws 'Database transaction for
\* updating settings failed.' with no setting changed.
C16_AllOrNothing ==
    [][CallStep("updateSiteSettings") =>
          LET s == last'.args[1] IN
          \/ /\ last'.outcome = "returned"
             /\ \A k \in KeysOf(s) :
                   k \in DOMAIN site_settings' /\ site_settings'[k] = String(Passed(s, k))
             /\ \A k \in DOMAIN site_settings' \ KeysOf(s) :
                   k \in DOMAIN site_settings /\ site_settings'[k] = site_settings[k]
             /\ settings' = settings
          \/ /\ last'.outcome = "threw"
             /\ last'.msg = "Database transaction for updating settings failed."
             /\ settingsTables' = settingsTables
      ]_vars

\* C16 witness: an update of two keys threw and the stored settings, none of
\* them one of the two, are still there.
C16_Witness ==
    /\ last.op = "updateSiteSettings" /\ last.outcome = "threw"
    /\ Len(last.args[1]) = 2
    /\ site_settings # EmptyTable
    /\ \A k \in KeysOf(last.args[1]) : k \notin DOMAIN site_settings

\* C18: after a deleteRating(u, l) in which every store operation succeeded,
\* no ratings row and no comments row of (u, l) is stored, and leader l's
\* review_count is the number of its ratings rows and its rating their mean
\* rounded to two decimals, or 0 without any.
C18_AggregateAfterDelete ==
    (last.op = "deleteRating" /\ last.failed = {}) =>
        LET u == last.args[1]
            l == last.args[2]
            rows == RatingsOf(ratings, l)
        IN  /\ last.outcome = "returned"
            /\ \A r \in ratings : ~(r.userId = u /\ r.leaderId = l)
            /\ \A c \in comments : ~(c.userId = u /\ c.leaderId = l)
            /\ l \in DOMAIN leaders =>
                  /\ leaders[l].review_count = Cardinality(rows)
                  /\ IF rows = {} THEN leaders[l].rating = 0
                     ELSE IsMeanRounded2(leaders[l].rating, SumRating(rows), Cardinality(rows))

\* C18 witness: a rating and its comment were deleted and the two ratings
\* left, 1 and 2, give the leader 1.5 over 2 reviews.
C18_Witness ==
    /\ last.op = "deleteRating" /\ last.failed = {}
    /\ last.removed = 2
    /\ 0 \in DOMAIN leaders
    /\ leaders[0].review_count = 2
    /\ leaders[0].rating = 150

\* The step of createPoll that failed is the insert of question k / of the
\* options of question k.
QuestionFailed(call, k) == call.failed = {QuestionStep(k)}
OptionsFailed(call, k) == call.failed = {OptionsStep(k)}

\* The poll read back has the questions of pollData before question n, each
\* with all its options.
CompleteBefore(poll, pollData, n) ==
    \A j \in 1..(n - 1) :
        /\ poll.questions[j].questionText = pollData.questions[j].questionText
        /\ Len(poll.questions[j].options) = Len(pollData.questions[j].options)

\* C19: when createPoll throws 'Failed to create poll question' or 'Failed to
\* create poll options', the rows stored before the call are still there, the
\* polls row and the question and option rows inserted before the failing
\* insert are stored, and getPollById returns that incomplete poll.
C19_NoRollback ==
    [][(/\ CallStep("createPoll") /\ last'.outcome = "threw"
        /\ last'.msg \in {"Failed to create poll question", "Failed to create poll options"}) =>
          LET pollData == last'.args[1]
              \* what getPollById reads after the call
              poll == dbToPoll(poll_questions', poll_options', polls'[clock])
          IN  /\ \A i \in DOMAIN polls : i \in DOMAIN polls' /\ polls'[i] = polls[i]
              /\ \A i \in DOMAIN poll_questions :
                    i \in DOMAIN poll_questions' /\ poll_questions'[i] = poll_questions[i]
              /\ \A i \in DOMAIN poll_options :
                    i \in DOMAIN poll_options' /\ poll_options'[i] = poll_options[i]
              /\ clock \notin DOMAIN polls
              /\ clock \in DOMAIN polls'
              /\ poll.title = pollData.title
              /\ \A k \in DOMAIN pollData.questions :
                    /\ QuestionFailed(last', k) =>
                          /\ last'.msg = "Failed to create poll question"
                          /\ Len(poll.questions) = k - 1
                          /\ CompleteBefore(poll, pollData, k)
                    /\ OptionsFailed(last', k) =>
                          /\ last'.msg = "Failed to create poll options"
                          /\ Len(poll.questions) = k
                          /\ CompleteBefore(poll, pollData, k)
                          /\ Len(poll.questions[k].options) = 0
      ]_vars

\* C19 witness: getPollById returned a poll with one question, the insert of
\* the second having failed.
C19_Witness ==
    /\ last.op = "getPollById" /\ last.failed = {}
    /\ last.ret # Null
    /\ Len(last.ret.questions) = 1
    /\ Len(last.ret.questions[1].options) = 3

\* The ticket was last updated more than 30 days before now.
OlderThanThirtyDays(ticket, now) ==
    \E t \in Instants : ticket.updated_at = toISOString(t) /\ now - t > ThirtyDays

\* C20: a getSupportTickets call whose delete succeeds removes exactly the
\* tickets that are 'in-progress', 'resolved' or 'closed' and were last
\* updated more than 30 days before now, and changes no other ticket: an
\* 'open' ticket and a ticket updated within 30 days stay.
C20_PurgeOldClosedTickets ==
    [][(CallStep("getSupportTickets") /\ "delete" \notin last'.failed) =>
          /\ DOMAIN support_tickets' =
                {i \in DOMAIN support_tickets :
                    ~(/\ support_tickets[i].status \in {"in-progress", "resolved", "closed"}
                      /\ OlderThanThirtyDays(support_tickets[i], clock))}
          /\ \A i \in DOMAIN support_tickets' : support_tickets'[i] = support_tickets[i]
      ]_vars

\* C20 witness: getSupportTickets deleted ticket 0 and kept an open ticket
\* that was updated exactly 30 days ago.
C20_Witness ==
    /\ last.op = "getSupportTickets"
    /\ last.deleted = {0}
    /\ \E i \in DOMAIN support_tickets :
          /\ support_tickets[i].status = "open"
          /\ getTime(support_tickets[i].updated_at) = clock - ThirtyDays

\* The sequence of records is in strictly ascending order of the field.
Ascending(seq, field) ==
    \A j, k \in DOMAIN seq : j < k => seq[j][field] < seq[k][field]

\* The options read back are those passed, in ascending optionOrder.
SameOptions(read, passed) ==
    /\ Len(read) = Len(passed)
    /\ Ascending(read, "optionOrder")
    /\ {<<read[k].optionText, read[k].optionOrder>> : k \in DOMAIN read}
         = {<<passed[k].optionText, passed[k].optionOrder>> : k \in DOMAIN passed}

\* C21: after a createPoll(p) that returned id, getPollById(id) reads the
\* title, description, isActive and activeUntil of p, all questions of p in
\* ascending questionOrder and, within each, all its options in ascending
\* optionOrder (for p with distinct orders).
C21_CreateThenReadPoll ==
    [][(CallStep("createPoll") /\ last'.outcome = "returned") =>
          LET p == last'.args[1]
              id == last'.ret
          IN  /\ id \in DOMAIN polls'
              /\ LET poll == dbToPoll(poll_questions', poll_options', polls'[id]) IN
                 /\ poll.title = p.title
                 /\ poll.description = p.description
                 /\ poll.isActive = p.isActive
                 /\ poll.activeUntil = p.activeUntil
                 /\ Len(poll.questions) = Len(p.questions)
                 /\ Ascending(poll.questions, "questionOrder")
                 /\ \A k \in DOMAIN p.questions :
                       \E j \in DOMAIN poll.questions :
                          /\ poll.questions[j].questionOrder = p.questions[k].questionOrder
                          /\ poll.questions[j].questionText = p.questions[k].questionText
                          /\ poll.questions[j].questionType = p.questions[k].questionType
                          /\ SameOptions(poll.questions[j].options, p.questions[k].options)
      ]_vars

\* C21 witness: getPollById returned the shuffled poll with its questions in
\* the order 2, 5 and the options of question 2 in the order 1, 3.
C21_Witness ==
    /\ last.op = "getPollById" /\ last.failed = {}
    /\ last.ret # Null
    /\ last.ret.title = "Water"
    /\ Len(last.ret.questions) = 2
    /\ last.ret.questions[1].questionOrder = 2
    /\ last.ret.questions[2].questionOrder = 5
    /\ Len(last.ret.questions[1].options) = 2
    /\ last.ret.questions[1].options[1].optionOrder = 1

\* C24 as stated: a submitPollResponse call that throws has changed no table,
\* so no response row of (pollId, userId) was added.
C24_FailureLeavesStore ==
    [][(CallStep("submitPollResponse") /\ last'.outcome = "threw") =>
          pollTables' = pollTables]_vars

\* C24: a submitPollResponse call that throws 'User has already responded to
\* this poll' or 'Failed to submit poll response' has changed no table; one
\* that throws 'Failed to submit poll answers' has added its response row
\* and no answer row, so that hasUserRespondedToPoll is true afterwards.
C24_FailureKeepsResponse ==
    [][(CallStep("submitPollResponse") /\ last'.outcome = "threw") =>
          LET p == last'.args[1]
              u == last'.args[2]
          IN  IF last'.msg = "Failed to submit poll answers"
              THEN /\ DOMAIN poll_responses' = DOMAIN poll_responses \cup {clock}
                   /\ clock \notin DOMAIN poll_responses
                   /\ poll_responses'[clock].poll_id = p
                   /\ poll_responses'[clock].user_id = u
                   /\ \A i \in DOMAIN poll_responses : poll_responses'[i] = poll_responses[i]
                   /\ UNCHANGED <<polls, poll_questions, poll_options, poll_answers>>
                   /\ ResponsesOf(poll_responses, p, u) = {} =>
                         SingleResponse(poll_responses', p, u, FALSE) # Null
              ELSE /\ last'.msg \in {"User has already responded to this poll",
                                      "Failed to submit poll response"}
                   /\ pollTables' = pollTables
      ]_vars

\* C24 witness: the answers of a response could not be inserted, and the
\* response is stored without any answer.
C24_Witness ==
    /\ last.op = "submitPollResponse" /\ last.outcome = "threw"
    /\ last.msg = "Failed to submit poll answers"
    /\ ResponsesOf(poll_responses, last.args[1], last.args[2]) # {}
    /\ poll_answers = EmptyTable

\* C25: an updateLeader call with userId null and isAdmin false throws and
\* leaves the leaders table as it was.
C25_NoIdentityNoEdit ==
    [][(CallStep("updateLeader") /\ last'.args[3] = NULL /\ ~last'.args[4]) =>
          /\ last'.outcome = "threw"
          /\ leaders' = leaders
      ]_vars

\* C26: every stored ticket has a resolved_at if and only if its status is
\* 'resolved' or 'closed'.
C26_ResolvedAtFollowsStatus ==
    \A i \in DOMAIN support_tickets :
        (support_tickets[i].resolved_at # NULL)
            <=> (support_tickets[i].status \in {"resolved", "closed"})

\* C28: when site_settings holds maintenance_active and no start or end is
\* stored, isMaintenanceActive (its read succeeding) returns true for 'true'
\* and false for 'false'.
C28_WriteAndCheckAgree ==
    (/\ last.op = "isMaintenanceActive" /\ last.failed = {}
     /\ "maintenance_active" \in DOMAIN site_settings
     /\ \A k \in {"maintenance_start", "maintenance_end"} :
           k \notin DOMAIN site_settings /\ k \notin DOMAIN settings) =>
        last.ret = (site_settings["maintenance_active"] = "true")

\* C30: a create whose store calls all work does not fail: addLeader,
\* createPoll and createSupportTicket return normally and addUser returns
\* the user.
C30_CreateNeverClashes ==
    (last.failed = {}) =>
        /\ last.op \in {"addLeader", "createPoll", "createSupportTicket"} =>
              last.outcome = "returned"
        /\ last.op = "addUser" => last.ret # Null

\* The passwords a stored user can have, and the users tables that differ from
\* a given one in stored passwords only.
Passwords == {"secret", "", "hunter2"}
StoresDifferingInPasswords(tbl) ==
    {[i \in DOMAIN tbl |-> [tbl[i] EXCEPT !.password = alt[i]]] :
        alt \in [DOMAIN tbl -> Passwords]}
HasNoPassword(user) == user = Null \/ "password" \notin DOMAIN user

\* C27: what getUsers, findUserById, addUser and updateUserProfile return
\* carries no password and is what the same call returns on every users table
\* that differs in stored passwords only; updateUserProfile changes no row's
\* id, email or password and adds or removes no row.
C27_PasswordNeverReturned ==
    [][\A other \in StoresDifferingInPasswords(users) :
          /\ CallStep("getUsers") =>
                /\ \A user \in last'.ret : HasNoPassword(user)
                /\ last'.ret = getUsers(other, ratings, leaders, "read" \in last'.failed)
          /\ CallStep("findUserById") =>
                /\ HasNoPassword(last'.ret)
                /\ last'.ret = findUserById(other, last'.args[1], "read" \in last'.failed)
          /\ CallStep("addUser") =>
                /\ HasNoPassword(last'.ret)
                /\ last'.ret = addUser(other, clock, last'.args[1], "insert" \in last'.failed)
          /\ CallStep("updateUserProfile") =>
                /\ HasNoPassword(last'.ret)
                /\ last'.ret = updateUserProfile(other, last'.args[1], last'.args[2],
                                                 last'.failed).ret
                /\ DOMAIN users' = DOMAIN users
                /\ \A i \in DOMAIN users :
                      \A c \in {"id", "email", "password"} : users'[i][c] = users[i][c]
      ]_vars

\* C27 witness: a profile update carrying an id, an email and a password has
\* been applied to a user with a stored password, and returned the user.
C27_Witness ==
    /\ last.op = "updateUserProfile" /\ last.failed = {}
    /\ "password" \in DOMAIN last.args[2]
    /\ last.ret # Null /\ last.ret.state = "Goa" /\ last.ret.name = NULL
    /\ users[last.args[1]].password = "secret"

\* The mean of the ratings of a leader to two decimals, 0 without any.
MeanOf(allRatings) ==
    IF allRatings = {} THEN 0 ELSE ToFixed2(SumRating(allRatings), Cardinality(allRatings))

\* C22: when no submitRatingAndComment or deleteRating call is in progress,
\* the review_count of a leader is the number of its ratings rows and its
\* rating is their mean to two decimals.
C22_AggregateAfterOverlap ==
    AllIdle =>
        \A l \in DOMAIN leaders :
            /\ leaders[l].review_count = Cardinality(RatingsOf(ratings, l))
            /\ leaders[l].rating = MeanOf(RatingsOf(ratings, l))

\* C23: poll_responses never holds two rows of one poll and one user.
C23_OneResponsePerUser ==
    \A p \in PollIds, u \in PollUsers : Cardinality(ResponsesOf(poll_responses, p, u)) <= 1

\* C29: the write of an admin's updateLeader call leaves the leader's status,
\* admin_comment, rating, review_count, added_by_user_id and created_at as
\* they are in the store when it runs.
C29_AdminEditKeepsModeration ==
    [][\A c \in Calls :
          (/\ At(c, "updateLeader", "update")
           /\ inflight[c].isAdmin
           /\ inflight'[c].pc = "readBack"
           /\ inflight[c].leaderId \in DOMAIN leaders) =>
              \A col \in {"status", "admin_comment", "rating", "review_count",
                           "added_by_user_id", "created_at"} :
                  leaders'[inflight[c].leaderId][col] = leaders[inflight[c].leaderId][col]
      ]_vars

====
